---- MODULE Spec2Model ----
(***************************************************************************)
(* Model of the model store (electron/modelManager.cjs), the inference     *)
(* engine (electron/inferenceEngine.cjs), the native binding               *)
(* (src/native/llm_inference.cpp) and the IPC handlers (electron/main.cjs) *)
(* of the Local AI desktop application.                                    *)
(*                                                                         *)
(* The JavaScript side is single threaded: a handler runs from one await   *)
(* on a real I/O event to the next without interleaving, so every action   *)
(* below is one such run-to-completion step.  The network, the filesystem  *)
(* and the execution library are the environment: their answers are the    *)
(* inputs drawn with \E.                                                   *)
(***************************************************************************)
EXTENDS Integers, Sequences, FiniteSets, TLC

VARIABLES
  files,         \* the models directory: path -> file (or absent)
  isDownloaded,  \* sampleModels[*].isDownloaded, by model id
  order,         \* the ids of this.sampleModels in the order of the array
  dl,            \* the download calls in flight, by call slot
  llm,           \* the native LLMInference object: model, ctx, modelLoaded, and the
                 \* model_params the model held was loaded with
  engine,        \* the InferenceEngine: activeModel, modelSettings
  libLog,        \* the calls into the execution library the last step made
  result,        \* what the step just taken returned to its caller, if it returned
  ipc,           \* the inference requests the main process has received and not answered
  sampler,       \* one sampling iteration of the decoding loop: logits, parameters, stage
  sanitizer,     \* sanitizeModelOutput: the text given and the text returned
  host           \* the machine: hardwareInfo.gpu and whether FORCE_CPU is 'true'

storeVars == <<files, isDownloaded, dl>>

engineVars == <<llm, engine, libLog>>

vars == <<files, isDownloaded, order, dl, llm, engine, libLog, result, ipc, sampler, sanitizer, host>>

----------------------------------------------------------------------------
(* Bounds of the model *)

\* data events delivered by one response
MaxChunks == 2

\* the largest maxTokens a generation request asks for
MaxTokens == 2

----------------------------------------------------------------------------
(* Program constants *)

\* the minimum size of a usable model file, in bytes
MinSize == 1000000

\* fetchUrlWithRedirects(urlString, options, maxRedirects = 5)
DefaultMaxRedirects == 5

\* this.sampleModels: id, size and alternativeUrls of each entry (size in units
\* of 1,000,000 bytes: 4,500,000,000 does not fit the checker's integers)
sampleModels ==
  << [id |-> "tinyllama-1.1b-chat-v1.0", size |-> 700,  alternativeUrls |-> <<"alt1", "alt2">>],
     [id |-> "phi-2",                    size |-> 1600, alternativeUrls |-> <<"alt1", "alt2">>],
     [id |-> "tinyllama-compat",         size |-> 420,  alternativeUrls |-> <<"alt1", "alt2">>],
     [id |-> "orca-mini",                size |-> 1900, alternativeUrls |-> <<"alt1">>],
     [id |-> "mistral-7b-instruct",      size |-> 4500, alternativeUrls |-> <<"alt1">>] >>

CatalogIds == {sampleModels[k].id : k \in 1..Len(sampleModels)}

\* this.sampleModels.find(m => m.id === modelId); "undefined" is [found |-> FALSE]
FindModel(modelId) ==
  IF modelId \in CatalogIds
  THEN [found |-> TRUE,
        model |-> sampleModels[CHOOSE k \in 1..Len(sampleModels) : sampleModels[k].id = modelId]]
  ELSE [found |-> FALSE, model |-> sampleModels[1]]

\* variant of Urls: the mirrors come before the primary url
MirrorsFirst(model) == model.alternativeUrls \o <<"url">>

\* let urls = [model.url, ...(model.alternativeUrls || [])]
Urls(model) == <<"url">> \o model.alternativeUrls

----------------------------------------------------------------------------
(* Inputs *)

\* the ids the callers pass: two catalog entries and an id the catalog lacks
RequestIds == {"orca-mini", "tinyllama-compat", "no-such-model"}

\* the call slots of downloadModel
Calls == {"d1", "d2"}

\* chunk lengths a response delivers
ChunkSizes == {999999, 1000000}

\* sizes of files found in the models directory at start
DiskSizes == {999999, 1000000, 2000000}

\* a response: status code, whether it has a Location header, content-length
StatusCodes == {200, 302, 404}

\* response.headers['content-length']: absent, or a number
ContentLengths ==
  {[present |-> FALSE, n |-> 0]} \cup {[present |-> TRUE, n |-> n] : n \in {0, 999999, 1000000}}

----------------------------------------------------------------------------
(* The filesystem *)

\* path.join(this.modelsDir, `${modelId}.gguf`)
ModelFileName(modelId) == <<modelId, "gguf">>

\* variant of TmpPath: one temporary file for every download
SharedTmp(modelPath) == <<"orca-mini", "gguf", "tmp">>

\* `${modelPath}.tmp`
TmpPath(modelPath) == Append(modelPath, "tmp")

\* `${modelPath}.corrupted`
CorruptedPath(modelPath) == Append(modelPath, "corrupted")

DiskIds == RequestIds \cap CatalogIds

\* the paths of the models the callers name; those of the other catalog
\* entries hold no file
Paths ==
  UNION {{ModelFileName(id), TmpPath(ModelFileName(id)), CorruptedPath(ModelFileName(id))} : id \in DiskIds}

\* a file is the chunks written to it, in order, and the write streams (by call
\* slot) that hold it open; a stream follows its file through a rename and
\* writes into nothing once the file is unlinked
NoFile == [exists |-> FALSE, data |-> <<>>, owners |-> {}]

Chunk(src, len) == [src |-> src, len |-> len]

RECURSIVE SumLen(_)
SumLen(s) == IF s = <<>> THEN 0 ELSE Head(s).len + SumLen(Tail(s))

\* fs.statSync(p).size
StatSize(fs, p) == SumLen(fs[p].data)

\* variant of ExistsSync: a path the directory has known counts as a file
KnownPath(fs, p) == p \in DOMAIN fs

\* fs.existsSync(p)
ExistsSync(fs, p) == p \in DOMAIN fs /\ fs[p].exists

\* fs.unlinkSync(p)
UnlinkSync(fs, p) == [fs EXCEPT ![p] = NoFile]

\* fs.renameSync(from, to): the file, with the streams open on it, moves
RenameSync(fs, from, to) == [fs EXCEPT ![to] = fs[from], ![from] = NoFile]

\* fs.createWriteStream(p) (flags 'w'): creates the file, or truncates the one
\* there, which the streams already open on it keep writing to.  A slot has
\* one write stream: the one it opens replaces the one it had.
CreateWriteStream(fs, p, c) ==
  [q \in DOMAIN fs |->
     IF q = p
     THEN [exists |-> TRUE, data |-> <<>>, owners |-> fs[p].owners \cup {c}]
     ELSE [fs[q] EXCEPT !.owners = @ \ {c}]]

\* the write stream of slot c completes the write of one chunk
WriteChunk(fs, c, chunk) ==
  [q \in DOMAIN fs |->
     IF fs[q].exists /\ c \in fs[q].owners
     THEN [fs[q] EXCEPT !.data = Append(@, chunk)]
     ELSE fs[q]]

----------------------------------------------------------------------------
(* What an operation returns *)

NoResult ==
  [op |-> "none", id |-> "", kind |-> "none", success |-> FALSE, error |-> "", cause |-> "", size |-> 0]

\* { success: true, ...payload }
Ok(op, id, size) ==
  [op |-> op, id |-> id, kind |-> "object", success |-> TRUE, error |-> "", cause |-> "", size |-> size]

\* variant of Fail: the error is thrown to the caller, not returned
Thrown(op, id, error, cause, size) ==
  [op |-> op, id |-> id, kind |-> "thrown", success |-> FALSE, error |-> error, cause |-> cause, size |-> size]

\* { success: false, error }
Fail(op, id, error, cause, size) ==
  [op |-> op, id |-> id, kind |-> "object", success |-> FALSE, error |-> error, cause |-> cause, size |-> size]

----------------------------------------------------------------------------
(* downloadModel / tryDownloadWithFallbacks / fetchUrlWithRedirects *)

NoLength == [present |-> FALSE, n |-> 0]

\* progressCallback has not been called in this pass
NoProgress == [sent |-> FALSE, id |-> "", progress |-> 0]

\* const progress = Math.round((downloadedSize / totalSize) * 100)
Percent(downloadedSize, totalSize) == (200 * downloadedSize + totalSize) \div (2 * totalSize)

\* the 'data' handler's `if (totalSize) { ... progressCallback(model.id, progress) }`:
\* the last call of progressCallback, which sends 'models:downloadProgress'
ReportProgress(d, downloadedSize) ==
  IF d.totalSize.present /\ d.totalSize.n # 0
  THEN [sent |-> TRUE, id |-> d.id, progress |-> Percent(downloadedSize, d.totalSize.n)]
  ELSE d.progress

IdleCall ==
  [pc |-> "idle", id |-> "", i |-> 0, maxRedirects |-> 0, hops |-> 0, ev |-> "none",
   log |-> <<>>, totalSize |-> NoLength, downloadedSize |-> 0, nRecv |-> 0,
   pending |-> <<>>, zombie |-> FALSE, dirty |-> FALSE, progress |-> NoProgress]

\* variant of ClearTmp: the stale temporary file is left in place
KeepTmp(fs, tmpPath) == fs

\* if (fs.existsSync(tmpPath)) fs.unlinkSync(tmpPath)
ClearTmp(fs, tmpPath) == IF ExistsSync(fs, tmpPath) THEN UnlinkSync(fs, tmpPath) ELSE fs

\* one pass of the for loop up to the await of fetchUrlWithRedirects: clear the
\* temporary file, open the write stream, send the request.  d is the call's
\* record as the previous pass left it.
BeginAttempt(c, d, i, fs) ==
  LET tmpPath == TmpPath(ModelFileName(d.id))
      fs1 == ClearTmp(fs, tmpPath)
      sameFile == fs1[tmpPath].exists /\ c \in fs1[tmpPath].owners
  IN /\ files' = CreateWriteStream(fs1, tmpPath, c)
     /\ dl' = [dl EXCEPT ![c] =
                 [d EXCEPT !.pc = "fetching", !.i = i, !.ev = IF i = 1 THEN "none" ELSE @,
                           !.maxRedirects = DefaultMaxRedirects, !.hops = 0,
                           !.totalSize = NoLength, !.downloadedSize = 0, !.nRecv = 0,
                           !.progress = NoProgress,
                           !.pending = IF sameFile THEN @ ELSE <<>>]]

\* catch (error) { lastError = error } and the next pass of the loop, or, after
\* the last url, throw 'All download attempts failed', which downloadModel
\* catches and returns.  fs is the filesystem as the failed pass left it.
AttemptFailed(c, ev, error, fs, zombie) ==
  LET d == dl[c]
      urls == Urls(FindModel(d.id).model)
      d1 == [d EXCEPT !.log = Append(@, [i |-> d.i, url |-> urls[d.i], outcome |-> error]),
                      !.ev = ev, !.zombie = zombie,
                      !.dirty = @ \/ d.nRecv > Len(d.pending)]
  IN IF d.i < Len(urls)
     THEN /\ BeginAttempt(c, d1, d.i + 1, fs)
          /\ result' = NoResult /\ UNCHANGED isDownloaded
     ELSE /\ dl' = [dl EXCEPT ![c] = [d1 EXCEPT !.pc = "returned"]]
          /\ files' = fs
          /\ result' = Fail("downloadModel", d.id, "All download attempts failed", error, 0)
          /\ UNCHANGED isDownloaded

\* downloadModel(modelId, progressCallback) up to the first await
StartDownload(c, modelId) ==
  /\ dl[c].pc \in {"idle", "returned"}
  /\ dl[c].pending = <<>>
  /\ ~dl[c].zombie
  /\ LET found == FindModel(modelId)
     IN IF ~found.found
        THEN /\ result' = Fail("downloadModel", modelId, "Model not found", "", 0)
             /\ dl' = [dl EXCEPT ![c] = [IdleCall EXCEPT !.pc = "returned", !.id = modelId]]
             /\ UNCHANGED <<files, isDownloaded>>
        ELSE /\ BeginAttempt(c, [IdleCall EXCEPT !.id = modelId], 1, files)
             /\ result' = NoResult
             /\ UNCHANGED isDownloaded
  /\ libLog' = <<>> /\ UNCHANGED <<order, llm, engine, ipc, sampler, sanitizer, host>>

\* response.statusCode >= 300 && response.statusCode < 400 && response.headers.location
IsRedirect(statusCode, location) == statusCode >= 300 /\ statusCode < 400 /\ location

\* variant of RedirectsExhausted: the budget is checked one hop late
ExhaustedBelowZero(maxRedirects) == maxRedirects < 0

\* if (maxRedirects <= 0) reject(new Error('Too many redirects'))
RedirectsExhausted(maxRedirects) == maxRedirects <= 0

\* the server answers the request with a redirect
FetchRedirect(c) ==
  /\ dl[c].pc = "fetching"
  /\ \E statusCode \in StatusCodes :
       /\ IsRedirect(statusCode, TRUE)
       /\ IF RedirectsExhausted(dl[c].maxRedirects)
          THEN AttemptFailed(c, "redirect", "Too many redirects", files, dl[c].zombie)
          ELSE /\ dl' = [dl EXCEPT ![c].maxRedirects = @ - 1, ![c].hops = @ + 1,
                                   ![c].ev = "redirect"]
               /\ result' = NoResult /\ UNCHANGED <<files, isDownloaded>>
  /\ libLog' = <<>> /\ UNCHANGED <<order, llm, engine, ipc, sampler, sanitizer, host>>

\* req.on('error') or req.on('timeout'): the promise rejects
FetchError(c) ==
  /\ dl[c].pc = "fetching"
  /\ AttemptFailed(c, "error", "Request failed", files, dl[c].zombie)
  /\ libLog' = <<>> /\ UNCHANGED <<order, llm, engine, ipc, sampler, sanitizer, host>>

\* parseInt(response.headers['content-length'], 10); NaN when the header is absent
ParseLength(header) == header

\* if (totalSize && totalSize < 1000000)
HeaderTooSmall(totalSize) == totalSize.present /\ totalSize.n # 0 /\ totalSize.n < MinSize

\* the server answers with a response that is no redirect: the promise resolves
\* and the pass goes on to the checks of the status and of the header
FetchResponse(c) ==
  /\ dl[c].pc = "fetching"
  /\ \E statusCode \in StatusCodes, location \in BOOLEAN, header \in ContentLengths :
       LET tmpPath == TmpPath(ModelFileName(dl[c].id))
           totalSize == ParseLength(header)
       IN /\ ~IsRedirect(statusCode, location)
          /\ IF statusCode # 200
             THEN AttemptFailed(c, "response", "HTTP error", ClearTmp(files, tmpPath), dl[c].zombie)
             ELSE IF HeaderTooSmall(totalSize)
             THEN AttemptFailed(c, "response", "Invalid file size in headers", ClearTmp(files, tmpPath), dl[c].zombie)
             ELSE /\ dl' = [dl EXCEPT ![c].pc = "streaming", ![c].totalSize = totalSize,
                                      ![c].ev = "response"]
                  /\ result' = NoResult /\ UNCHANGED <<files, isDownloaded>>
  /\ libLog' = <<>> /\ UNCHANGED <<order, llm, engine, ipc, sampler, sanitizer, host>>

\* response.on('data', chunk => ...): count the chunk, queue its write
Data(c) ==
  /\ dl[c].pc = "streaming"
  /\ dl[c].nRecv < MaxChunks
  /\ \E len \in ChunkSizes :
       dl' = [dl EXCEPT ![c].downloadedSize = @ + len,
                        ![c].nRecv = @ + 1,
                        ![c].progress = ReportProgress(dl[c], dl[c].downloadedSize + len),
                        ![c].pending = Append(@, Chunk(<<c, dl[c].i>>, len)),
                        ![c].maxRedirects = 0, ![c].hops = 0, ![c].ev = "data"]
  /\ result' = NoResult /\ UNCHANGED <<files, isDownloaded>>
  /\ libLog' = <<>> /\ UNCHANGED <<order, llm, engine, ipc, sampler, sanitizer, host>>

\* the write stream completes the write it has queued first
Flush(c) ==
  /\ dl[c].pending # <<>>
  /\ files' = WriteChunk(files, c, Head(dl[c].pending))
  /\ dl' = [dl EXCEPT ![c].pending = Tail(@)]
  /\ result' = NoResult /\ UNCHANGED isDownloaded
  /\ libLog' = <<>> /\ UNCHANGED <<order, llm, engine, ipc, sampler, sanitizer, host>>

\* variant of WrittenTooSmall: only an empty file is rejected
WrittenEmpty(size) == size <= 0

\* if (stats.size < 1000000)
WrittenTooSmall(size) == size < MinSize

\* what the 'end' handler does to the filesystem, and whether it resolves:
\* statSync throws when nothing is at tmpPath, and any fs call may fail
EndHandler(fs, tmpPath, modelPath, fault) ==
  IF ~ExistsSync(fs, tmpPath) \/ fault = "stat"
  THEN [fs |-> fs, outcome |-> "File system error"]
  ELSE IF WrittenTooSmall(StatSize(fs, tmpPath))
  THEN [fs |-> UnlinkSync(fs, tmpPath), outcome |-> "Downloaded file too small"]
  ELSE IF fault = "rename"
  THEN [fs |-> fs, outcome |-> "File system error"]
  ELSE [fs |-> RenameSync(fs, tmpPath, modelPath), outcome |-> "ok"]

\* response.on('end'): check the written size, rename, resolve; then
\* tryDownloadWithFallbacks returns true and downloadModel returns success
End(c) ==
  /\ dl[c].pc = "streaming"
  /\ \E fault \in {"none", "stat", "rename"} :
       LET modelPath == ModelFileName(dl[c].id)
           h == EndHandler(files, TmpPath(modelPath), modelPath, fault)
       IN IF h.outcome = "ok"
          THEN /\ files' = h.fs
               /\ dl' = [dl EXCEPT ![c].pc = "returned", ![c].ev = "end",
                                   ![c].maxRedirects = 0, ![c].hops = 0,
                                   ![c].log = Append(@, [i |-> dl[c].i,
                                                          url |-> Urls(FindModel(dl[c].id).model)[dl[c].i],
                                                          outcome |-> "ok"])]
               /\ isDownloaded' = [isDownloaded EXCEPT ![dl[c].id] = TRUE]
               /\ result' = Ok("downloadModel", dl[c].id, 0)
          ELSE AttemptFailed(c, "end", h.outcome, h.fs, dl[c].zombie)
  /\ libLog' = <<>> /\ UNCHANGED <<order, llm, engine, ipc, sampler, sanitizer, host>>

\* response.on('error'): end the stream, remove the temporary file, reject
ResponseError(c) ==
  /\ dl[c].pc = "streaming"
  /\ AttemptFailed(c, "abort", "Stream error",
                   ClearTmp(files, TmpPath(ModelFileName(dl[c].id))), dl[c].zombie)
  /\ libLog' = <<>> /\ UNCHANGED <<order, llm, engine, ipc, sampler, sanitizer, host>>

\* modelFile.on('error'): remove the temporary file, reject.  The response is
\* not destroyed: it goes on to its 'end' while the next pass is under way.
ModelFileError(c) ==
  /\ dl[c].pc = "streaming"
  /\ AttemptFailed(c, "werror", "Write error",
                   ClearTmp(files, TmpPath(ModelFileName(dl[c].id))), TRUE)
  /\ libLog' = <<>> /\ UNCHANGED <<order, llm, engine, ipc, sampler, sanitizer, host>>

\* the 'end' handler of a response whose pass was already rejected: its
\* resolve and reject do nothing, its statSync, unlinkSync and renameSync act
\* on whatever is at tmpPath now
ZombieEnd(c) ==
  /\ dl[c].zombie
  /\ \E fault \in {"none", "stat", "rename"} :
       LET modelPath == ModelFileName(dl[c].id)
       IN files' = EndHandler(files, TmpPath(modelPath), modelPath, fault).fs
  /\ dl' = [dl EXCEPT ![c].zombie = FALSE]
  /\ result' = NoResult /\ UNCHANGED isDownloaded
  /\ libLog' = <<>> /\ UNCHANGED <<order, llm, engine, ipc, sampler, sanitizer, host>>

----------------------------------------------------------------------------
(* verifyModel, getAvailableModels, deleteModel *)

\* verifyModel(modelId): the flag it sets and the result it returns
VerifyModel(fs, flags, modelId, fault) ==
  LET modelPath == ModelFileName(modelId) IN
  IF ~FindModel(modelId).found
  THEN [flags |-> flags, result |-> Fail("verifyModel", modelId, "Model not found", "", 0)]
  ELSE IF ~ExistsSync(fs, modelPath)
  THEN [flags |-> [flags EXCEPT ![modelId] = FALSE],
        result |-> Fail("verifyModel", modelId, "Model file not found", "", 0)]
  ELSE IF fault
  THEN [flags |-> flags, result |-> Fail("verifyModel", modelId, "File system error", "", 0)]
  ELSE IF StatSize(fs, modelPath) < MinSize
  THEN [flags |-> [flags EXCEPT ![modelId] = FALSE],
        result |-> Fail("verifyModel", modelId, "Model file is too small", "", StatSize(fs, modelPath))]
  ELSE [flags |-> [flags EXCEPT ![modelId] = TRUE],
        result |-> Ok("verifyModel", modelId, StatSize(fs, modelPath))]

Verify(modelId) ==
  /\ \E fault \in BOOLEAN :
       LET v == VerifyModel(files, isDownloaded, modelId, fault)
       IN /\ isDownloaded' = v.flags
          /\ result' = v.result
          /\ UNCHANGED <<files, dl>>
  /\ libLog' = <<>> /\ UNCHANGED <<order, llm, engine, ipc, sampler, sanitizer, host>>

\* variant of IsValidSize: every size is valid
IsAnySize(size) == TRUE

\* const isValidSize = stats.size > 1000000
IsValidSize(size) == size > MinSize

\* getAvailableModels(): each pass of its loop reads and changes the paths of
\* its own model only.  statFault, renameFault: the ids whose statSync,
\* renameSync throws.
GetAvailableModels(fs, flags, statFault, renameFault) ==
  LET Valid(id) == /\ ExistsSync(fs, ModelFileName(id))
                   /\ id \notin statFault
                   /\ IsValidSize(StatSize(fs, ModelFileName(id)))
      Quarantined(id) == /\ ExistsSync(fs, ModelFileName(id))
                         /\ id \notin statFault
                         /\ ~IsValidSize(StatSize(fs, ModelFileName(id)))
                         /\ id \notin renameFault
  IN [flags |-> [id \in CatalogIds |-> Valid(id)],
      fs |-> [p \in DOMAIN fs |->
                IF \E id \in CatalogIds : p = ModelFileName(id) /\ Quarantined(id)
                THEN NoFile
                ELSE IF \E id \in CatalogIds : p = CorruptedPath(ModelFileName(id)) /\ Quarantined(id)
                THEN fs[ModelFileName(CHOOSE id \in CatalogIds : p = CorruptedPath(ModelFileName(id)))]
                ELSE fs[p]]]

List ==
  /\ \E statFault \in SUBSET DiskIds, renameFault \in SUBSET DiskIds :
       LET g == GetAvailableModels(files, isDownloaded, statFault, renameFault)
       IN /\ files' = g.fs
          /\ isDownloaded' = g.flags
          /\ result' = [NoResult EXCEPT
                          !.op = "getAvailableModels", !.kind = "array",
                          !.cause = IF \E id \in statFault : ExistsSync(files, ModelFileName(id))
                                    THEN "statSync threw" ELSE ""]
          /\ UNCHANGED dl
  /\ libLog' = <<>> /\ UNCHANGED <<order, llm, engine, ipc, sampler, sanitizer, host>>

\* variant of DeleteModel: unlinkSync is called without asking existsSync, and
\* throws when the file is absent
DeleteModelStrict(fs, flags, modelId, fault) ==
  LET modelPath == ModelFileName(modelId) IN
  IF ~FindModel(modelId).found
  THEN [fs |-> fs, flags |-> flags,
        result |-> Fail("deleteModel", modelId, "Model not found", "", 0)]
  ELSE IF ~ExistsSync(fs, modelPath) \/ fault
  THEN [fs |-> fs, flags |-> flags,
        result |-> Fail("deleteModel", modelId, "File system error", "", 0)]
  ELSE [fs |-> UnlinkSync(fs, modelPath),
        flags |-> [flags EXCEPT ![modelId] = FALSE],
        result |-> Ok("deleteModel", modelId, 0)]

\* deleteModel(modelId); fault: unlinkSync throws
DeleteModel(fs, flags, modelId, fault) ==
  LET modelPath == ModelFileName(modelId) IN
  IF ~FindModel(modelId).found
  THEN [fs |-> fs, flags |-> flags,
        result |-> Fail("deleteModel", modelId, "Model not found", "", 0)]
  ELSE IF ExistsSync(fs, modelPath) /\ fault
  THEN [fs |-> fs, flags |-> flags,
        result |-> Fail("deleteModel", modelId, "File system error", "", 0)]
  ELSE [fs |-> IF ExistsSync(fs, modelPath) THEN UnlinkSync(fs, modelPath) ELSE fs,
        flags |-> [flags EXCEPT ![modelId] = FALSE],
        result |-> Ok("deleteModel", modelId, 0)]

\* ipcMain.handle('models:delete')
Delete(modelId) ==
  /\ \E fault \in BOOLEAN :
       LET d == DeleteModel(files, isDownloaded, modelId, fault)
       IN /\ files' = d.fs
          /\ isDownloaded' = d.flags
          /\ result' = d.result
          /\ UNCHANGED dl
  /\ libLog' = <<>> /\ UNCHANGED <<order, llm, engine, ipc, sampler, sanitizer, host>>

----------------------------------------------------------------------------
(* recommendModels *)

RECURSIVE InsertBySize(_, _)
InsertBySize(sorted, id) ==
  IF sorted = <<>> THEN <<id>>
  ELSE IF FindModel(id).model.size - FindModel(Head(sorted)).model.size < 0
  THEN <<id>> \o sorted
  ELSE <<Head(sorted)>> \o InsertBySize(Tail(sorted), id)

RECURSIVE SortBySize(_)
SortBySize(ids) ==
  IF ids = <<>> THEN <<>>
  ELSE InsertBySize(SortBySize(SubSeq(ids, 1, Len(ids) - 1)), ids[Len(ids)])

\* variant of RecommendModels: the array is returned as it is
RecommendUnsorted(ids, hardwareInfo) == ids

\* recommendModels(hardwareInfo): this.sampleModels.sort((a, b) => a.size - b.size)
RecommendModels(ids, hardwareInfo) == SortBySize(ids)

\* ipcMain.handle('models:recommend'): the array is sorted in place and returned
Recommend ==
  /\ \E hardwareInfo \in {"none", "nvidia", "apple", "other"} :
       order' = RecommendModels(order, hardwareInfo)
  /\ result' = [NoResult EXCEPT !.op = "recommendModels", !.kind = "array"]
  /\ UNCHANGED <<files, isDownloaded, dl>>
  /\ libLog' = <<>> /\ UNCHANGED <<llm, engine, ipc, sampler, sanitizer, host>>

----------------------------------------------------------------------------
(* LLMInference (native), InferenceEngine.loadModel, ipc 'inference:loadModel' *)

\* what llama_model_load_from_file and llama_init_from_model may do
LoadOutcomes == {"ok", "model_null", "ctx_null", "ctx_throws"}

\* hardwareInfo.gpu as getHardwareInfo reports it
HardwareProfiles ==
  {[available |-> FALSE, isNvidia |-> FALSE, isAppleSilicon |-> FALSE],
   [available |-> TRUE,  isNvidia |-> TRUE,  isAppleSilicon |-> FALSE],
   [available |-> TRUE,  isNvidia |-> FALSE, isAppleSilicon |-> TRUE],
   [available |-> TRUE,  isNvidia |-> FALSE, isAppleSilicon |-> FALSE]}

\* gpuLayers = 99: use all layers on NVIDIA
AllLayers == 99

\* gpuLayers = 1: use metal on Apple Silicon
MetalLayers == 1

\* this.llm.loadModel(modelPath, 0, contextSize): the CPU-only fallback
CpuOnlyLayers == 0

\* model_params = llama_model_default_params(): n_gpu_layers is the library's
\* default, info[1] is not read
DefaultParams == [source |-> "default", n |-> 0]

\* no model is held
NoParams == [source |-> "none", n |-> 0]

\* variant of Released: LoadModel starts with no cleanup
NotReleased(l) == l

\* the cleanup LoadModel starts with: free ctx and model, modelLoaded = false
Released(l) ==
  [l EXCEPT !.model = "null", !.ctx = "null", !.modelLoaded = FALSE, !.params = NoParams]

\* LLMInference::LoadModel: the object afterwards, and whether the call
\* returned true (every failure throws a JavaScript exception).  The layers
\* argument is not read.
NativeLoadModel(l, modelId, gpuLayers, outcome) ==
  IF outcome = "ok"
  THEN [llm |-> [l EXCEPT !.model = modelId, !.ctx = modelId, !.modelLoaded = TRUE,
                          !.params = DefaultParams],
        success |-> TRUE, threw |-> FALSE]
  ELSE IF outcome = "ctx_throws"
  THEN [llm |-> [Released(l) EXCEPT !.model = modelId], success |-> FALSE, threw |-> TRUE]
  ELSE [llm |-> Released(l), success |-> FALSE, threw |-> TRUE]

\* this.llm.loadModel: the native object, or the mock that stands in for it
\* when the native module could not be loaded (loadModel() { return false })
LlmLoadModel(l, modelId, gpuLayers, outcome) ==
  IF l.native
  THEN NativeLoadModel(l, modelId, gpuLayers, outcome)
  ELSE [llm |-> l, success |-> FALSE, threw |-> FALSE]

\* variant of NeedsFallback: the fallback is taken only above one layer
FallbackAboveOne(success, gpuLayers) == ~success /\ gpuLayers > 1

\* if (!success && gpuLayers > 0)
NeedsFallback(success, gpuLayers) == ~success /\ gpuLayers > 0

LoadCall(gpuLayers, ok) == [fn |-> "loadModel", arg |-> gpuLayers, ok |-> ok]

\* InferenceEngine.loadModel(modelId, modelPath, {gpuLayers, modelSettings}):
\* the native object, the engine, the library calls made and the result
EngineLoadModel(fs, l, e, modelId, gpuLayers, settings, out1, out2, fault) ==
  LET modelPath == ModelFileName(modelId)
      same(r) == [llm |-> l, engine |-> e, libLog |-> <<>>, result |-> r]
  IN IF ~ExistsSync(fs, modelPath)
     THEN same(Fail("loadModel", modelId, "Model file not found", "", 0))
     ELSE IF fault
     THEN same(Fail("loadModel", modelId, "Unexpected error", "", 0))
     ELSE IF StatSize(fs, modelPath) < MinSize
     THEN same(Fail("loadModel", modelId, "Model file may be corrupted (too small)", "", 0))
     ELSE
       LET e1 == [e EXCEPT !.modelSettings = settings]
           a1 == LlmLoadModel(l, modelId, gpuLayers, out1)
           retry == NeedsFallback(a1.success, gpuLayers)
           a2 == IF retry THEN LlmLoadModel(a1.llm, modelId, CpuOnlyLayers, out2) ELSE a1
           log == <<LoadCall(gpuLayers, a1.success)>>
                    \o (IF retry THEN <<LoadCall(CpuOnlyLayers, a2.success)>> ELSE <<>>)
       IN IF a2.success
          THEN [llm |-> a2.llm, engine |-> [e1 EXCEPT !.activeModel = modelId],
                libLog |-> log, result |-> Ok("loadModel", modelId, 0)]
          ELSE [llm |-> a2.llm, engine |-> e1, libLog |-> log,
                result |-> Fail("loadModel", modelId, "Failed to load model", "", 0)]

\* the machines: what getHardwareInfo reports and process.env.FORCE_CPU === 'true'
Hosts == [gpu : HardwareProfiles, forceCpu : BOOLEAN]

\* a machine with an NVIDIA GPU, FORCE_CPU not set
NvidiaHost ==
  [gpu |-> [available |-> TRUE, isNvidia |-> TRUE, isAppleSilicon |-> FALSE], forceCpu |-> FALSE]

\* variant of GpuLayers: FORCE_CPU is not read
GpuLayersOfHardware(hw, forceCpu) ==
  IF hw.available /\ hw.isNvidia THEN AllLayers
  ELSE IF hw.available /\ hw.isAppleSilicon THEN MetalLayers
  ELSE 0

\* the gpuLayers the handler derives from the hardware and from FORCE_CPU
GpuLayers(hw, forceCpu) ==
  IF forceCpu THEN 0
  ELSE IF hw.available /\ hw.isNvidia THEN AllLayers
  ELSE IF hw.available /\ hw.isAppleSilicon THEN MetalLayers
  ELSE 0

\* the faults one request may meet in its synchronous filesystem calls
LoadFaults == {"none", "list_stat", "list_rename", "verify_stat", "engine_stat"}

\* ipcMain.handle('inference:loadModel'): after the await of getHardwareInfo
\* the handler runs to its return without another I/O wait
LoadModelHandler(modelId) ==
  /\ \E fault \in LoadFaults :
       LET g == GetAvailableModels(files, isDownloaded,
                                   IF fault = "list_stat" THEN DiskIds ELSE {},
                                   IF fault = "list_rename" THEN DiskIds ELSE {})
           v == VerifyModel(g.fs, g.flags, modelId, fault = "verify_stat")
       IN /\ files' = g.fs
          /\ IF ~FindModel(modelId).found
             THEN /\ result' = Fail("loadModel", modelId, "Model not found", "", 0)
                  /\ isDownloaded' = g.flags
                  /\ libLog' = <<>>
                  /\ UNCHANGED <<llm, engine>>
             ELSE IF ~g.flags[modelId]
             THEN /\ result' = Fail("loadModel", modelId, "Model is not downloaded", "", 0)
                  /\ isDownloaded' = g.flags
                  /\ libLog' = <<>>
                  /\ UNCHANGED <<llm, engine>>
             ELSE IF ~v.result.success
             THEN /\ result' = Fail("loadModel", modelId, "Model verification failed",
                                    v.result.error, 0)
                  /\ isDownloaded' = v.flags
                  /\ libLog' = <<>>
                  /\ UNCHANGED <<llm, engine>>
             ELSE \E out1 \in LoadOutcomes :
                  LET gpuLayers == GpuLayers(host.gpu, host.forceCpu) IN
                  \E out2 \in (IF out1 # "ok" /\ gpuLayers > 0 THEN LoadOutcomes ELSE {out1}) :
                    LET r == EngineLoadModel(g.fs, llm, engine, modelId,
                                             gpuLayers, modelId,
                                             out1, out2, fault = "engine_stat")
                    IN /\ result' = r.result
                       /\ isDownloaded' = v.flags
                       /\ llm' = r.llm
                       /\ engine' = r.engine
                       /\ libLog' = r.libLog
  /\ UNCHANGED <<order, dl, sampler, sanitizer, host>>

\* a loadModel request, from its arrival to its answer
LoadModelRequest(modelId) == LoadModelHandler(modelId) /\ UNCHANGED ipc

----------------------------------------------------------------------------
(* LLMInference::Generate, InferenceEngine.generateText, ipc 'inference:generate' *)

LibCall(fn, arg, ok) == [fn |-> fn, arg |-> arg, ok |-> ok]

\* the answers of the execution library in one pass of the decoding loop: the
\* token the sampler picks (end-of-sequence or another) and whether
\* llama_decode of that token succeeds
LoopAnswers == [tok : {"eos", "tok"}, decodeOk : BOOLEAN]

\* variant of NextPos: the position is counted from the first sampled token
NextPosOfPass(nPrompt, i) == i

\* next_batch.pos[0] = tokens.size() + i
NextPos(nPrompt, i) == nPrompt + i

\* variant of LoopRuns: the body runs once before the bound is tested
LoopRunsOnce(i, maxTokens) == i = 0 \/ i < maxTokens

\* for (int i = 0; i < max_tokens; i++)
LoopRuns(i, maxTokens) == i < maxTokens

\* variant of IsEos: no token ends the sequence
NeverEos(tok) == FALSE

\* if (new_token == eos_token)
IsEos(tok) == tok = "eos"

\* variant of DecodeFailed: the loop goes on after a failed llama_decode
DecodeNeverFails(decodeOk) == FALSE

\* if (llama_decode(ctx, next_batch) != 0)
DecodeFailed(decodeOk) == ~decodeOk

\* batch.logits[i] = false, for each of the n tokens of the prompt
PrefillLogits(i, n) == FALSE

\* next_batch.logits[0] = true
NextLogits == TRUE

\* whether the llama_decode that precedes pass i asked for the logits of the
\* last token of its batch: the batch of the prompt before pass 0, the batch
\* of one token after it
LogitsRequested(i, nPrompt) ==
  IF i = 0 THEN PrefillLogits(nPrompt - 1, nPrompt) ELSE NextLogits

\* the body of the decoding loop from pass i on: acc is the library calls made
\* and the number of pieces appended to result so far.  The entry "get_logits"
\* is ok when the decode before it asked for logits; the entry "sample" is
\* the pick of the sampler in pass i, ok when it is not the end-of-sequence token.
RECURSIVE DecodeLoop(_, _, _, _, _)
DecodeLoop(i, maxTokens, nPrompt, script, acc) ==
  IF ~LoopRuns(i, maxTokens) THEN acc
  ELSE
    LET sampled == [acc EXCEPT !.log = @ \o <<LibCall("get_logits", i, LogitsRequested(i, nPrompt)),
                                              LibCall("sample", i, script[i + 1].tok # "eos")>>]
        fed == [sampled EXCEPT
                  !.log = @ \o <<LibCall("token_to_piece", i, TRUE),
                                 LibCall("decode", NextPos(nPrompt, i), script[i + 1].decodeOk)>>,
                  !.pieces = @ + 1]
    IN IF IsEos(script[i + 1].tok) THEN sampled
       ELSE IF DecodeFailed(script[i + 1].decodeOk) THEN fed
       ELSE DecodeLoop(i + 1, maxTokens, nPrompt, script, fed)

\* variant of PrefillFailed: the result of the first llama_decode is not read
PrefillNeverFails(prefillOk) == FALSE

\* if (llama_decode(ctx, batch) != 0)
PrefillFailed(prefillOk) == ~prefillOk

\* LLMInference::Generate(prompt, max_tokens, temperature, top_p): the string
\* it returns (the prompt and so many pieces) or the exception it throws.
\* nPrompt is what llama_tokenize returns, negative for a failure.
NativeGenerate(l, maxTokens, nPrompt, prefillOk, script) ==
  LET tokenized == <<LibCall("tokenize", nPrompt, nPrompt >= 0)>>
      prefilled == tokenized \o <<LibCall("decode", 0, prefillOk)>>
  IN IF ~l.modelLoaded
     THEN [threw |-> TRUE, error |-> "Model not loaded", pieces |-> 0, log |-> <<>>]
     ELSE IF nPrompt < 0
     THEN [threw |-> TRUE, error |-> "Failed to tokenize prompt", pieces |-> 0, log |-> tokenized]
     ELSE IF PrefillFailed(prefillOk)
     THEN [threw |-> TRUE, error |-> "Failed to decode prompt", pieces |-> 0, log |-> prefilled]
     ELSE
       LET acc == DecodeLoop(0, maxTokens, nPrompt, script, [log |-> prefilled, pieces |-> 0])
       IN [threw |-> FALSE, error |-> "", pieces |-> acc.pieces, log |-> acc.log]

\* variant of IsModelLoaded: a model held counts as a model loaded
ModelHeld(l) == l.native /\ l.model # "null"

\* InferenceEngine.isModelLoaded(): the mock's isModelLoaded() returns false
IsModelLoaded(l) == IF l.native THEN l.modelLoaded ELSE FALSE

\* what the caller passes as params: nothing, an empty prompt, a prompt
GenerateParams == {"undefined", "empty", "prompt"}

\* InferenceEngine.generateText(params): the result and the library calls
GenerateText(l, e, params, maxTokens, nPrompt, prefillOk, script) ==
  IF ~IsModelLoaded(l)
  THEN [result |-> Fail("generateText", "", "No model loaded", "", 0), libLog |-> <<>>]
  ELSE IF params = "undefined"
  THEN [result |-> Fail("generateText", "", "Unexpected error", "", 0), libLog |-> <<>>]
  ELSE IF params = "empty"
  THEN [result |-> Fail("generateText", "", "Prompt is required", "", 0), libLog |-> <<>>]
  ELSE
    LET g == NativeGenerate(l, maxTokens, nPrompt, prefillOk, script)
        log == <<LibCall("generate", maxTokens, ~g.threw)>> \o g.log
    IN IF g.threw
       THEN [result |-> Fail("generateText", e.activeModel, "Generation failed", g.error, 0),
             libLog |-> log]
       ELSE [result |-> Ok("generateText", e.activeModel, g.pieces), libLog |-> log]

\* ipcMain.handle('inference:generate'): the handler and generateText run
\* without a wait up to the return of this.llm.generate
GenerateHandler ==
  /\ \E params \in GenerateParams :
       IF ~IsModelLoaded(llm) \/ params # "prompt"
       THEN LET g == GenerateText(llm, engine, params, 0, 1, TRUE, <<>>)
            IN result' = g.result /\ libLog' = g.libLog
       ELSE \E g \in {GenerateText(llm, engine, params, maxTokens, nPrompt, prefillOk, script) :
                         maxTokens \in -1..MaxTokens, nPrompt \in {-1, 1, 2},
                         prefillOk \in BOOLEAN, script \in [1..MaxTokens -> LoopAnswers]} :
              result' = g.result /\ libLog' = g.libLog
  /\ UNCHANGED <<files, isDownloaded, order, dl, llm, engine, sampler, sanitizer, host>>

\* a generate request, from its arrival to its answer
GenerateRequest == GenerateHandler /\ UNCHANGED ipc

----------------------------------------------------------------------------
(* Initial states *)

DiskFile(size) == [exists |-> TRUE, data |-> <<Chunk(<<"disk", 0>>, size)>>, owners |-> {}]

\* the models directory as a previous run may have left it: for each of ids a
\* model file of any size or none, a temporary file of an aborted download or
\* none
InitFiles(ids) ==
  {[p \in Paths |->
      IF \E id \in ids : p = ModelFileName(id)
      THEN final[CHOOSE id \in ids : p = ModelFileName(id)]
      ELSE IF \E id \in ids : p = TmpPath(ModelFileName(id))
      THEN tmp[CHOOSE id \in ids : p = TmpPath(ModelFileName(id))]
      ELSE NoFile] :
     final \in [ids -> {NoFile} \cup {DiskFile(n) : n \in DiskSizes}],
     tmp \in [ids -> {NoFile, DiskFile(999999)}]}

\* the ModelManager as its constructor leaves it, no download under way
InitStore(ids) ==
  /\ files \in InitFiles(ids)
  /\ isDownloaded = [id \in CatalogIds |-> FALSE]
  /\ order = [k \in 1..Len(sampleModels) |-> sampleModels[k].id]
  /\ dl = [c \in Calls |-> IdleCall]
  /\ result = NoResult

\* no sampling iteration is under way
NoSampling == [pc |-> "idle"]

\* sanitizeModelOutput has not been called
NoText == [pc |-> "idle"]

\* no inference request is waiting, no generation is under way
NoRequests == [load |-> "none", id |-> "", gen |-> "none"]

\* the InferenceEngine as its constructor leaves it; native: whether the
\* native module could be required
InitEngine(natives, hosts) ==
  /\ host \in hosts
  /\ llm \in {[native |-> n, model |-> "null", ctx |-> "null", modelLoaded |-> FALSE,
               params |-> NoParams] : n \in natives}
  /\ engine = [activeModel |-> "null", modelSettings |-> "null"]
  /\ libLog = <<>>
  /\ ipc = NoRequests
  /\ sampler = NoSampling
  /\ sanitizer = NoText

----------------------------------------------------------------------------
(* Spec: one downloadModel call at a time, against every behaviour of the   *)
(* servers.  The other operations of the store read and write only the      *)
(* final and the quarantine path and the flag, which a download call never  *)
(* reads and writes only in its last step; they are in SpecStore.           *)

DownloadIds == {"orca-mini", "no-such-model"}

Init == InitStore({"orca-mini"}) /\ InitEngine({TRUE}, {NvidiaHost})

Next ==
  \/ \E modelId \in DownloadIds : StartDownload("d1", modelId)
  \/ FetchRedirect("d1")
  \/ FetchError("d1")
  \/ FetchResponse("d1")
  \/ Data("d1")
  \/ Flush("d1")
  \/ End("d1")
  \/ ResponseError("d1")
  \/ ModelFileError("d1")
  \/ ZombieEnd("d1")

Spec == Init /\ [][Next]_vars

\* What the code itself guarantees about progress: a request that is not
\* answered is rejected by the 'timeout' listener of fetchUrlWithRedirects,
\* and the write stream completes every queued write.  The events of a
\* response that has been handed to the caller (data, end, error) come from
\* the connection; the code sets no timer of its own for them.
Settles ==
  /\ WF_vars(FetchRedirect("d1") \/ FetchError("d1") \/ FetchResponse("d1"))
  /\ WF_vars(Flush("d1"))

SpecLive == Init /\ [][Next]_vars /\ Settles

----------------------------------------------------------------------------
(* SpecStore: verifyModel, getAvailableModels, deleteModel over every state *)
(* of the models directory                                                  *)

InitStoreOnly == InitStore(DiskIds) /\ InitEngine({TRUE}, {NvidiaHost})

NextStore ==
  \/ \E modelId \in RequestIds : Verify(modelId)
  \/ List
  \/ \E modelId \in RequestIds : Delete(modelId)

SpecStore == InitStoreOnly /\ [][NextStore]_vars

----------------------------------------------------------------------------
(* SpecLoad: the inference handlers, with the store operations that change  *)
(* what a load finds                                                        *)

InitLoad == InitStore({"orca-mini"}) /\ InitEngine(BOOLEAN, Hosts)

NextLoad ==
  \/ \E modelId \in DownloadIds : LoadModelRequest(modelId)
  \/ GenerateRequest
  \/ Recommend
  \/ \E modelId \in DownloadIds : Delete(modelId)

SpecLoad == InitLoad /\ [][NextLoad]_vars

----------------------------------------------------------------------------
(* SpecSwitch: loadModel requests for two models of the catalog, and        *)
(* generate requests, in any order, whatever files the directory holds      *)

SwitchIds == {"orca-mini", "tinyllama-compat"}

InitSwitch == InitStore(SwitchIds) /\ InitEngine({TRUE}, {NvidiaHost})

NextSwitch ==
  \/ \E modelId \in SwitchIds : LoadModelRequest(modelId)
  \/ GenerateRequest

SpecSwitch == InitSwitch /\ [][NextSwitch]_vars

----------------------------------------------------------------------------
(* SpecApi: the seven operations the renderer can invoke, from the state the *)
(* application starts in.  A session is one downloadModel call, followed to  *)
(* its return, or any sequence of the handlers that run to their return      *)
(* without an I/O wait (verify, list, delete, recommend, load, generate).    *)

\* nothing has been requested yet
FirstRequest == result = NoResult /\ \A c \in Calls : dl[c].pc = "idle"

\* no download was started
NoDownloadYet == \A c \in Calls : dl[c].pc = "idle"

NextApi ==
  \/ FirstRequest /\ \E modelId \in DownloadIds : StartDownload("d1", modelId)
  \/ FetchRedirect("d1")
  \/ FetchError("d1")
  \/ FetchResponse("d1")
  \/ Data("d1")
  \/ Flush("d1")
  \/ End("d1")
  \/ ResponseError("d1")
  \/ NoDownloadYet /\ \E modelId \in DownloadIds : Verify(modelId)
  \/ NoDownloadYet /\ List
  \/ NoDownloadYet /\ \E modelId \in DownloadIds : Delete(modelId)
  \/ NoDownloadYet /\ Recommend
  \/ NoDownloadYet /\ \E modelId \in DownloadIds : LoadModelRequest(modelId)
  \/ NoDownloadYet /\ GenerateRequest

SpecApi == Init /\ [][NextApi]_vars

----------------------------------------------------------------------------
(* SpecConc: loadModel and generate requests arriving in any order.  The     *)
(* loadModel handler waits for getHardwareInfo; what follows that wait, and  *)
(* the whole generate handler up to the return of the native call, run on    *)
(* the one JavaScript thread without another wait.                           *)

\* variant of GenerateYields: the native generate returns to the event loop
\* while its decoding is under way
GenerateYieldsAsync == TRUE

\* LLMInference::Generate is a synchronous method: it returns to JavaScript
\* only after its decoding loop
GenerateYields == FALSE

\* ipcMain.handle('inference:loadModel') up to await getHardwareInfo()
LoadArrive(modelId) ==
  /\ ipc.load = "none"
  /\ ipc' = [ipc EXCEPT !.load = "hw", !.id = modelId]
  /\ result' = NoResult /\ libLog' = <<>>
  /\ UNCHANGED <<files, isDownloaded, order, dl, llm, engine, sampler, sanitizer, host>>

\* the rest of the loadModel handler, once getHardwareInfo has answered
LoadResume ==
  /\ ipc.load = "hw"
  /\ LoadModelHandler(ipc.id)
  /\ ipc' = [ipc EXCEPT !.load = "none", !.id = ""]

\* the generate handler; were the native call to yield, its decoding would be
\* under way between two steps
GenerateCall ==
  IF ipc.gen = "decoding"
  THEN GenerateHandler /\ ipc' = [ipc EXCEPT !.gen = "none"]
  ELSE IF GenerateYields /\ IsModelLoaded(llm)
  THEN /\ ipc' = [ipc EXCEPT !.gen = "decoding"]
       /\ result' = NoResult /\ libLog' = <<LibCall("tokenize", 0, TRUE)>>
       /\ UNCHANGED <<files, isDownloaded, order, dl, llm, engine, sampler, sanitizer, host>>
  ELSE GenerateHandler /\ UNCHANGED ipc

NextConc ==
  \/ \E modelId \in DownloadIds : LoadArrive(modelId)
  \/ LoadResume
  \/ GenerateCall

SpecConc == InitLoad /\ [][NextConc]_vars

----------------------------------------------------------------------------
(* Single-precision arithmetic of the sampling helpers.  A float is m * 2^e  *)
(* with m = 0 or 2^23 <= m < 2^24; results are rounded to nearest, ties to   *)
(* even, as the hardware rounds them.                                        *)

\* the significand of a float has 24 bits
MantBits == 24

\* 0.0f
Zero == [m |-> 0, e |-> 0]

RECURSIVE BitLen(_)
\* the number of bits of n > 0
BitLen(n) == IF n < 2 THEN 1 ELSE 1 + BitLen(n \div 2)

\* the float nearest to n * 2^e, or to a value just above it when sticky
Norm(n, e, sticky) ==
  IF n = 0 THEN Zero
  ELSE LET s == BitLen(n) - MantBits
       IN IF s <= 0
          THEN [m |-> n * 2^(0 - s), e |-> e + s]
          ELSE LET q    == n \div 2^s
                   rem  == n % 2^s
                   half == 2^(s - 1)
                   up   == rem > half \/ (rem = half /\ (sticky \/ q % 2 = 1))
                   r    == IF up THEN q + 1 ELSE q
               IN IF r = 2^MantBits
                  THEN [m |-> 2^(MantBits - 1), e |-> e + s + 1]
                  ELSE [m |-> r, e |-> e + s]

\* a + b for floats a, b >= 0
FAdd(a, b) ==
  IF a.m = 0 THEN b
  ELSE IF b.m = 0 THEN a
  ELSE LET hi == IF a.e >= b.e THEN a ELSE b
           lo == IF a.e >= b.e THEN b ELSE a
           d  == hi.e - lo.e
       IN IF d >= MantBits + 2 THEN hi
          ELSE LET k  == IF d < 6 THEN d ELSE 6
                   sh == d - k
               IN Norm(hi.m * 2^k + lo.m \div 2^sh, hi.e - k, lo.m % 2^sh # 0)

RECURSIVE DivBits(_, _, _, _)
\* k more quotient bits of r / d by long division, up to six bits at a time
DivBits(q, r, d, k) ==
  IF k = 0 THEN [q |-> q, r |-> r]
  ELSE LET n == IF k < 6 THEN k ELSE 6
       IN DivBits(q * 2^n + (r * 2^n) \div d, (r * 2^n) % d, d, k - n)

\* a / b for floats a >= 0, b > 0
FDiv(a, b) ==
  IF a.m = 0 THEN Zero
  ELSE LET x == DivBits(a.m \div b.m, a.m % b.m, b.m, MantBits + 2)
       IN Norm(x.q, a.e - b.e - (MantBits + 2), x.r # 0)

\* a > b for floats a, b >= 0
FGt(a, b) ==
  /\ a.m # 0
  /\ \/ b.m = 0
     \/ a.e > b.e
     \/ a.e = b.e /\ a.m > b.m

\* the float of num / den
Frac(num, den) == FDiv(Norm(num, 0, FALSE), Norm(den, 0, FALSE))

----------------------------------------------------------------------------
(* LLMInference::Generate, one sampling iteration.  A logit is recorded by   *)
(* the number w it is the logarithm of, so that expf(logit - max_logit) is   *)
(* the float of w / w_max; expf(0) is exactly 1.                             *)

\* the number of tokens of the largest vocabulary
NVocab == 11

\* the number of tokens of the largest vocabulary with more than two logit values
SmallVocab == 4

\* the logits ln 1, ln 3, ln 5 and ln 2^-29 (about -20.1)
LogitValues == {[m |-> 1, e |-> 0], [m |-> 3, e |-> 0], [m |-> 5, e |-> 0], [m |-> 1, e |-> -29]}

\* llama_get_logits(ctx), for a vocabulary of n tokens (index 1 is token 0)
LogitVectors ==
  UNION {[1..n -> LogitValues] : n \in 1..SmallVocab}
    \cup UNION {[1..n -> {[m |-> 1, e |-> 0], [m |-> 1, e |-> -29]}] : n \in 1..NVocab}

\* the temperature argument
Temperatures == {-1, 0, 1}

\* the top_p argument: 0.7f, 0.95f (the default), 1.0f
TopPs == {Frac(7, 10), Frac(95, 100), Frac(1, 1)}

\* logits[j] > logits[i]
LogitGt(x, y) == FGt(Norm(x.m, x.e, FALSE), Norm(y.m, y.e, FALSE))

RECURSIVE MaxFrom(_, _, _)
\* the loop `if (logits[j] > max_logit) { max_logit = logits[j]; new_token = j; }`
\* from index j on, the maximum so far being at index best
MaxFrom(logits, j, best) ==
  IF j > Len(logits) THEN best
  ELSE MaxFrom(logits, j + 1, IF LogitGt(logits[j], logits[best]) THEN j ELSE best)

RECURSIVE LastMaxFrom(_, _, _)
\* variant of MaxFrom: a later logit equal to the maximum replaces it
LastMaxFrom(logits, j, best) ==
  IF j > Len(logits) THEN best
  ELSE LastMaxFrom(logits, j + 1, IF LogitGt(logits[best], logits[j]) THEN best ELSE j)

\* variant of GreedyToken: the last of the equal maxima
GreedyLastToken(logits) == LastMaxFrom(logits, 2, 1) - 1

\* greedy sampling: the token id found by the loop
GreedyToken(logits) == MaxFrom(logits, 2, 1) - 1

\* probs[j] /= temperature, for temperature 1.0f
ApplyTemperature(logits, temperature) == logits

\* expf(x - y) for the logits x <= y
Expf(x, y) == FDiv(Norm(x.m, x.e, FALSE), Norm(y.m, y.e, FALSE))

RECURSIVE SumTo(_, _)
\* sum += p[i] for i = 1..k, from 0.0f
SumTo(p, k) == IF k = 0 THEN Zero ELSE FAdd(SumTo(p, k - 1), p[k])

\* apply_softmax on the logits
ApplySoftmax(logits) ==
  LET max_logit == logits[MaxFrom(logits, 2, 1)]
      ex  == [i \in 1..Len(logits) |-> Expf(logits[i], max_logit)]
      sum == SumTo(ex, Len(ex))
  IN [i \in 1..Len(logits) |-> FDiv(ex[i], sum)]

\* std::greater on pair<float, int>: the larger value first, then the larger index
PairGt(p, i, j) == FGt(p[i], p[j]) \/ (p[i] = p[j] /\ i > j)

RECURSIVE SortFrom(_, _)
\* the indices of rest, the greatest pair first
SortFrom(p, rest) ==
  IF rest = {} THEN <<>>
  ELSE LET first == CHOOSE i \in rest : \A j \in rest \ {i} : PairGt(p, i, j)
       IN <<first>> \o SortFrom(p, rest \ {first})

\* std::sort(probs.begin(), probs.end(), std::greater<>()): the indices in sorted order
SortDesc(p) == SortFrom(p, 1..Len(p))

\* the first position of the sorted order at which cumsum > top_p, or 0
RECURSIVE Crossing(_, _, _, _, _)
Crossing(p, ord, top_p, i, cumsum) ==
  IF i > Len(p) THEN 0
  ELSE LET c == FAdd(cumsum, p[ord[i]])
       IN IF FGt(c, top_p) THEN i ELSE Crossing(p, ord, top_p, i + 1, c)

\* variant of FirstZeroed: the entry that crosses the threshold is zeroed too
FirstZeroedAt(i) == i

\* `for (int j = i + 1; ...)`: the first sorted position that is zeroed
FirstZeroed(i) == i + 1

\* apply_top_p
ApplyTopP(p, top_p) ==
  LET sorted == SortDesc(p)
      cross  == Crossing(p, sorted, top_p, 1, Zero)
      zeroed == IF cross = 0 THEN {} ELSE {sorted[j] : j \in FirstZeroed(cross)..Len(p)}
  IN [x \in 1..Len(p) |-> IF x \in zeroed THEN Zero ELSE p[x]]

\* the number of steps of the grid the random value r is drawn from
RandSteps == 8

\* the fixed-point numbers of the second softmax count 1/FixUnit
FixUnit == 2^15

\* a float of [0, 1] in fixed point, rounded down
ToFixed(a) ==
  IF a.m = 0 \/ 0 - a.e > 30 THEN 0
  ELSE (a.m \div (2^(MantBits - 1) \div FixUnit)) \div 2^(0 - a.e - (MantBits - 1))

RECURSIVE ExpTerms(_, _, _)
\* the terms k, k + 1, ... of the series of exp(-d), d in fixed point; term is term k - 1
ExpTerms(d, term, k) ==
  LET next == (0 - term * d) \div (FixUnit * k)
  IN IF next = 0 THEN 0 ELSE next + ExpTerms(d, next, k + 1)

\* expf(x - y) for probabilities x <= y in fixed point: exp(-d) with 0 <= d <= 1,
\* to within 2^-11
ExpfUnit(x, y) == FixUnit + ExpTerms(y - x, FixUnit, 1)

RECURSIVE FixedFrom(_, _)
\* the probabilities from index i on, in fixed point
FixedFrom(p, i) == IF i > Len(p) THEN <<>> ELSE <<ToFixed(p[i])>> \o FixedFrom(p, i + 1)

RECURSIVE FixMax(_, _)
\* if (logits[i] > max_logit) max_logit = logits[i], for i = 1..k
FixMax(v, k) ==
  IF k = 1 THEN v[1]
  ELSE LET max_logit == FixMax(v, k - 1) IN IF v[k] > max_logit THEN v[k] ELSE max_logit

RECURSIVE ExpsFrom(_, _, _)
\* logits[i] = expf(logits[i] - max_logit), from index i on
ExpsFrom(v, max_logit, i) ==
  IF i > Len(v) THEN <<>>
  ELSE <<ExpfUnit(v[i], max_logit)>> \o ExpsFrom(v, max_logit, i + 1)

RECURSIVE FixSum(_, _)
\* sum += logits[i] for i = 1..k
FixSum(v, k) == IF k = 0 THEN 0 ELSE FixSum(v, k - 1) + v[k]

RECURSIVE ScaledFrom(_, _, _)
\* logits[i] /= sum, from index i on
ScaledFrom(ex, sum, i) ==
  IF i > Len(ex) THEN <<>>
  ELSE <<(ex[i] * FixUnit) \div sum>> \o ScaledFrom(ex, sum, i + 1)

\* the second apply_softmax, on the probabilities apply_top_p left, in fixed point
Renormalized(p) ==
  LET v  == FixedFrom(p, 1)
      ex == ExpsFrom(v, FixMax(v, Len(v)), 1)
  IN ScaledFrom(ex, FixSum(ex, Len(ex)), 1)

RECURSIVE SampleFrom(_, _, _, _)
\* the loop of sample_token from index i on: cdf += logits[i]; if (r < cdf) return i
SampleFrom(q, r, i, cdf) ==
  IF i > Len(q) THEN Len(q) - 1
  ELSE IF r < cdf + q[i] THEN i - 1
  ELSE SampleFrom(q, r, i + 1, cdf + q[i])

\* sample_token(probs, n_vocab) for the random value r, in fixed point
SampleToken(q, r) == SampleFrom(q, r, 1, 0)

\* a sampling iteration begins: the logits of the last decode and the arguments
BeginSampling(logits, temperature, top_p) ==
  [pc |-> "logits", logits |-> logits, temperature |-> temperature, top_p |-> top_p,
   full |-> <<>>, probs |-> <<>>, token |-> -1, draws |-> 0]

\* temperature <= 0.0f: greedy sampling
Greedy ==
  /\ sampler.pc = "logits" /\ sampler.temperature <= 0
  /\ sampler' = [sampler EXCEPT !.pc = "sampled", !.token = GreedyToken(sampler.logits)]
  /\ UNCHANGED <<files, isDownloaded, order, dl, llm, engine, libLog, result, ipc, sanitizer, host>>

\* temperature > 0: copy the logits, apply the temperature, apply_softmax
Softmax ==
  /\ sampler.pc = "logits" /\ sampler.temperature > 0
  /\ sampler' = [sampler EXCEPT
                   !.pc = "softmax",
                   !.probs = ApplySoftmax(ApplyTemperature(sampler.logits, sampler.temperature))]
  /\ UNCHANGED <<files, isDownloaded, order, dl, llm, engine, libLog, result, ipc, sanitizer, host>>

\* apply_top_p(probs.data(), n_vocab, top_p)
TopP ==
  /\ sampler.pc = "softmax"
  /\ sampler' = [sampler EXCEPT
                   !.pc = "top_p",
                   !.full = sampler.probs,
                   !.probs = ApplyTopP(sampler.probs, sampler.top_p)]
  /\ UNCHANGED <<files, isDownloaded, order, dl, llm, engine, libLog, result, ipc, sanitizer, host>>

\* the second apply_softmax and sample_token: r = rand() / RAND_MAX is a value
\* of [0, 1], here one of the grid 0, 1/RandSteps, ..., 1
Sample ==
  /\ sampler.pc = "top_p"
  /\ LET q == Renormalized(sampler.probs)
     IN \E token \in {SampleToken(q, (k * FixUnit) \div RandSteps) : k \in 0..RandSteps} :
          sampler' = [sampler EXCEPT !.pc = "sampled", !.token = token, !.draws = @ + 1]
  /\ UNCHANGED <<files, isDownloaded, order, dl, llm, engine, libLog, result, ipc, sanitizer, host>>

\* the decoding loop reads the logits of the last decode step
BeginIteration ==
  /\ sampler.pc = "idle"
  /\ \E logits \in LogitVectors, temperature \in Temperatures, top_p \in TopPs :
       sampler' = BeginSampling(logits, temperature, top_p)
  /\ UNCHANGED <<files, isDownloaded, order, dl, llm, engine, libLog, result, ipc, sanitizer, host>>

----------------------------------------------------------------------------
(* SpecSample: one sampling iteration of the decoding loop, for every logits *)
(* vector and argument of the bounded sets above                             *)

InitSample == InitStore({}) /\ InitEngine({TRUE}, {NvidiaHost})

NextSample ==
  \/ BeginIteration
  \/ Greedy
  \/ Softmax
  \/ TopP
  \/ Sample

SpecSample == InitSample /\ [][NextSample]_vars


----------------------------------------------------------------------------
(* InferenceEngine.sanitizeModelOutput.  A text is a sequence of symbols:    *)
(* single characters, and the character runs of three backticks and of      *)
(* "http://" taken as one symbol each, which no step of the pipeline splits. *)

\* the length of the longest text given to the sanitizer
MaxLen == 6

\* a letter, a space, '<', '>', three backticks, "http://", the control
\* character U+0001, and U+4E2D, which is outside the ranges the second step keeps
Symbols == {"a", " ", "<", ">", "fence", "http://", "U+0001", "U+4E2D"}

Texts == UNION {[1..n -> Symbols] : n \in 0..MaxLen}

\* the two fixed strings the sanitizer can return
ErrorText == <<"Error: No valid response generated">>
Apology == <<"I apologize, but I couldn't generate a proper response. Please try again.">>

\* text.replace(/[\x00-\x09\x0B-\x0C\x0E-\x1F\x7F-\x9F]/g, '')
StripControl(t) == SelectSeq(t, LAMBDA c : c # "U+0001")

\* cleaned.replace(/[^\x20-\x7E\u00A0-\u00FF\u2000-\u206F\u3000-\u303F]/g, ' ')
ReplaceDisallowed(t) == [i \in 1..Len(t) |-> IF t[i] = "U+4E2D" THEN " " ELSE t[i]]

\* cleaned.replace(/\s+/g, ' ')
CollapseSpaces(t) ==
  LET keep == {i \in 1..Len(t) : ~(t[i] = " " /\ i > 1 /\ t[i - 1] = " ")}
  IN [k \in 1..Cardinality(keep) |->
        t[CHOOSE i \in keep : Cardinality({j \in keep : j < i}) = k - 1]]

\* the first index j > i with t[j] = c, or 0
NextAfter(t, i, c) ==
  IF \E j \in (i + 1)..Len(t) : t[j] = c
  THEN CHOOSE j \in (i + 1)..Len(t) : t[j] = c /\ \A k \in (i + 1)..(j - 1) : t[k] # c
  ELSE 0

RECURSIVE RemoveSpans(_, _, _, _)
\* replace(/open[\s\S]*?close/g, ''), from index i on: the leftmost match,
\* closed by the first close after it, then the next match after that one
RemoveSpans(t, i, open, close) ==
  IF i > Len(t) THEN <<>>
  ELSE IF t[i] = open /\ NextAfter(t, i, close) # 0
       THEN RemoveSpans(t, NextAfter(t, i, close) + 1, open, close)
       ELSE <<t[i]>> \o RemoveSpans(t, i + 1, open, close)

\* cleaned.replace(/(three backticks)[\s\S]*?(three backticks)/g, '')
RemoveFences(t) == RemoveSpans(t, 1, "fence", "fence")

\* cleaned.replace(/<[^>]*>/g, '')
RemoveTags(t) == RemoveSpans(t, 1, "<", ">")

\* the end of the run of non-whitespace symbols that starts at index i
RunEnd(t, i) ==
  IF \E j \in i..Len(t) : t[j] = " "
  THEN (CHOOSE j \in i..Len(t) : t[j] = " " /\ \A k \in i..(j - 1) : t[k] # " ") - 1
  ELSE Len(t)

RECURSIVE ReplaceUrlsFrom(_, _)
\* cleaned.replace(/(https?:\/\/[^\s]+)/g, '[URL]'), from index i on
ReplaceUrlsFrom(t, i) ==
  IF i > Len(t) THEN <<>>
  ELSE IF t[i] = "http://" /\ i < Len(t) /\ t[i + 1] # " "
       THEN <<"[URL]">> \o ReplaceUrlsFrom(t, RunEnd(t, i) + 1)
       ELSE <<t[i]>> \o ReplaceUrlsFrom(t, i + 1)

ReplaceUrls(t) == ReplaceUrlsFrom(t, 1)

\* cleaned.trim()
Trim(t) ==
  LET solid == {i \in 1..Len(t) : t[i] # " "}
  IN IF solid = {} THEN <<>>
     ELSE LET first == CHOOSE i \in solid : \A j \in solid : i <= j
              last  == CHOOSE i \in solid : \A j \in solid : j <= i
          IN SubSeq(t, first, last)

\* the seven steps of the try block, in the order of the code
Cleanup(t) ==
  Trim(ReplaceUrls(RemoveTags(RemoveFences(CollapseSpaces(ReplaceDisallowed(StripControl(t)))))))

\* `!text`, for a string: the empty string
NoInput(t) == t = <<>>

\* sanitizeModelOutput(text); thrown: a step of the try block throws
SanitizeModelOutput(t, thrown) ==
  IF NoInput(t) THEN ErrorText
  ELSE IF thrown THEN Apology
  ELSE IF Cleanup(t) = <<>> THEN Apology
  ELSE Cleanup(t)

\* generateText calls sanitizeModelOutput on the continuation
Sanitize ==
  /\ sanitizer.pc = "idle"
  /\ \E t \in Texts, thrown \in BOOLEAN :
       sanitizer' = [pc |-> "once", input |-> t, thrown |-> thrown,
                     output |-> SanitizeModelOutput(t, thrown), again |-> <<>>]
  /\ UNCHANGED <<files, isDownloaded, order, dl, llm, engine, libLog, result, ipc, sampler, host>>

\* sanitizeModelOutput called on a text it returned
SanitizeAgain ==
  /\ sanitizer.pc = "once"
  /\ sanitizer' = [sanitizer EXCEPT !.pc = "twice",
                                    !.again = SanitizeModelOutput(sanitizer.output, FALSE)]
  /\ UNCHANGED <<files, isDownloaded, order, dl, llm, engine, libLog, result, ipc, sampler, host>>

----------------------------------------------------------------------------
(* SpecSanitize: the sanitizer applied to every text of the bounded set,     *)
(* and then to its own output                                                *)

InitSanitize == InitStore({}) /\ InitEngine({TRUE}, {NvidiaHost})

NextSanitize ==
  \/ Sanitize
  \/ SanitizeAgain

SpecSanitize == InitSanitize /\ [][NextSanitize]_vars

----------------------------------------------------------------------------
(* SpecPair: two downloadModel calls for different models at the same time,  *)
(* on an empty models directory.  Each server answers, sends its body in one *)
(* chunk with no content-length, and ends or fails.                          *)

PairModel == [d1 |-> "orca-mini", d2 |-> "tinyllama-compat"]

PairSteps(c) ==
  \/ dl[c].pc = "idle" /\ StartDownload(c, PairModel[c])
  \/ FetchError(c)
  \/ FetchResponse(c) /\ ~dl'[c].totalSize.present
  \/ dl[c].nRecv = 0 /\ Data(c)
  \/ Flush(c)
  \/ End(c)
  \/ ResponseError(c)

InitPair == InitStore({}) /\ InitEngine({TRUE}, {NvidiaHost})

NextPair == \E c \in Calls : PairSteps(c)

SpecPair == InitPair /\ [][NextPair]_vars

\* two calls of downloadModel for one model, their steps interleaved
SameSteps(c) ==
  \/ dl[c].pc = "idle" /\ StartDownload(c, "orca-mini")
  \/ FetchError(c)
  \/ FetchResponse(c) /\ ~dl'[c].totalSize.present
  \/ dl[c].nRecv = 0 /\ Data(c)
  \/ Flush(c)
  \/ End(c)
  \/ ResponseError(c)

NextSame == \E c \in Calls : SameSteps(c)

SpecSame == InitPair /\ [][NextSame]_vars

----------------------------------------------------------------------------
(* Properties of downloadModel, checked under Spec *)

\* the downloadModel call in slot c has returned success
ReturnedOk(c) ==
  /\ dl[c].pc = "returned" /\ dl[c].log # <<>>
  /\ dl[c].log[Len(dl[c].log)].outcome = "ok"

\* the order in which downloadModel is to contact the urls of a model
UrlOrder(modelId) == <<"url">> \o FindModel(modelId).model.alternativeUrls

\* C2: when a url of the model fails (bad status, header size, redirect
\* overflow, network error, stream error, written size) and a later mirror
\* succeeds, the call returns success with that mirror, and the file at the
\* final path holds only chunks streamed from that mirror: nothing a failed
\* attempt wrote to the temporary file reaches the final path.
C2_MirrorFallback ==
  \A c \in Calls :
    ReturnedOk(c) =>
      LET d == dl[c]
          f == files[ModelFileName(d.id)]
      IN /\ f.exists
         /\ \A k \in 1..Len(f.data) : f.data[k].src = <<c, d.log[Len(d.log)].i>>
         /\ (result.op = "downloadModel" => result = Ok("downloadModel", d.id, 0))

\* a call that succeeded on its mirror after the primary url streamed a body
\* into the temporary file and failed
C2_SecondMirrorWon ==
  \E c \in Calls :
    /\ ReturnedOk(c) /\ Len(dl[c].log) = 2 /\ dl[c].dirty
    /\ dl[c].log[1].outcome \in {"Downloaded file too small", "Stream error"}

\* C3: download contacts the urls in the order [url, ...alternativeUrls],
\* contacts no url after the first that succeeds, and returns 'All download
\* attempts failed' only after every url has failed, with the error of the
\* last url tried.
C3_UrlOrder ==
  \A c \in Calls :
    LET d == dl[c]
        n == Len(d.log)
    IN d.id \in CatalogIds =>
         /\ n <= Len(UrlOrder(d.id))
         /\ \A k \in 1..n : d.log[k].url = UrlOrder(d.id)[k]
         /\ \A k \in 1..n : d.log[k].outcome = "ok" => k = n /\ d.pc = "returned"
         /\ d.pc \in {"fetching", "streaming"} => d.i = n + 1
         /\ (result.op = "downloadModel" /\ result.error = "All download attempts failed") =>
              /\ n = Len(UrlOrder(d.id))
              /\ \A k \in 1..n : d.log[k].outcome # "ok"
              /\ result.cause = d.log[n].outcome

\* every url of the model was tried and failed, and the call returned so
C3_AllFailed ==
  \E c \in Calls :
    /\ result.op = "downloadModel" /\ result.error = "All download attempts failed"
    /\ Len(dl[c].log) = 2 /\ dl[c].log[1].outcome # dl[c].log[2].outcome

\* the final path of a model the callers name holds, after this step,
\* something it did not hold before
FinalPathChanged(id) ==
  /\ files'[ModelFileName(id)].exists
  /\ files'[ModelFileName(id)] # files[ModelFileName(id)]

\* the 'end' handler of the attempt under way found the written size below
\* the threshold
EndedTooSmall(c) ==
  /\ dl[c].pc = "streaming"
  /\ Len(dl'[c].log) = Len(dl[c].log) + 1
  /\ dl'[c].log[Len(dl'[c].log)].outcome = "Downloaded file too small"

\* C4: whenever download(id) has returned success, a file of at least the
\* minimum size is at the final path of id and the descriptor's isDownloaded
\* is true; whatever comes to the final path has passed the size check, and a
\* body whose written size is below the threshold is not renamed to the final
\* path, its temporary file is deleted.
C4_SuccessMeansFile ==
  /\ [](\A c \in Calls :
          ReturnedOk(c) =>
            /\ files[ModelFileName(dl[c].id)].exists
            /\ StatSize(files, ModelFileName(dl[c].id)) >= 1000000
            /\ isDownloaded[dl[c].id])
  /\ [][\A id \in DiskIds :
          FinalPathChanged(id) => StatSize(files', ModelFileName(id)) >= 1000000]_vars
  /\ [][\A c \in Calls :
          EndedTooSmall(c) =>
            /\ files'[ModelFileName(dl[c].id)] = files[ModelFileName(dl[c].id)]
            /\ files'[TmpPath(ModelFileName(dl[c].id))].data = <<>>
            /\ (dl'[c].pc = "returned" => ~files'[TmpPath(ModelFileName(dl[c].id))].exists)]_vars

\* the last url streamed a body below the threshold, the call has returned
\* failure; and elsewhere a call returned success
C4_TooSmallRejected ==
  \E c \in Calls :
    /\ dl[c].pc = "returned" /\ Len(dl[c].log) = 2
    /\ dl[c].log[2].outcome = "Downloaded file too small"
    /\ dl[c].downloadedSize > 0

\* a step in which the server answers the request of slot c with a redirect
RedirectStep(c) ==
  /\ dl[c].pc = "fetching"
  /\ dl'[c].ev = "redirect"
  /\ dl'[c].hops # dl[c].hops \/ dl'[c].log # dl[c].log

\* C5: a request whose redirect chain has exactly 5 hops is followed to its
\* terminal response; a chain that requires a 6th hop fails with 'Too many
\* redirects'; no request follows more than 5 redirects, and every redirect
\* uses up one of them.
C5_RedirectBound ==
  /\ [](\A c \in Calls : dl[c].hops <= 5)
  /\ [][\A c \in Calls :
          RedirectStep(c) =>
            IF dl[c].hops < 5
            THEN /\ dl'[c].hops = dl[c].hops + 1
                 /\ dl'[c].pc = "fetching"
                 /\ dl'[c].log = dl[c].log
            ELSE /\ Len(dl'[c].log) = Len(dl[c].log) + 1
                 /\ dl'[c].log[Len(dl'[c].log)].outcome = "Too many redirects"]_vars

\* the response that ends a chain of exactly 5 redirects is accepted and its
\* body is being streamed
C5_FiveHopsFollowed ==
  \E c \in Calls : dl[c].pc = "streaming" /\ dl[c].hops = 5 /\ dl[c].ev = "response"

\* C8: for every content length the server reports that is below the
\* threshold, a reported length of 0 included, the attempt is rejected with
\* 'Invalid file size in headers' before any chunk of the body is read or
\* written: no attempt streams a body whose reported length is below the
\* threshold.
C8_HeaderTooSmallRejected ==
  \A c \in Calls :
    dl[c].pc = "streaming" =>
      ~(dl[c].totalSize.present /\ dl[c].totalSize.n < 1000000)

\* C32: after each chunk of the body the download has received,
\* progressCallback has been called with the model id: with the percentage of
\* the total received so far when the total size is known, and with no
\* percentage when it is not.
C32_ProgressAfterEachChunk ==
  [][\A c \in Calls :
       dl'[c].nRecv = dl[c].nRecv + 1 =>
          /\ dl'[c].progress.sent
          /\ dl'[c].progress.id = dl[c].id
          /\ dl[c].totalSize.present =>
                dl[c].totalSize.n * dl'[c].progress.progress
                   \in (100 * dl'[c].downloadedSize - dl[c].totalSize.n \div 2)
                         ..(100 * dl'[c].downloadedSize + dl[c].totalSize.n \div 2)]_vars

\* C33: when a downloadModel call for a catalog model has returned, with
\* success or with 'All download attempts failed', whatever the way each url
\* failed, no temporary file of that model exists.
C33_NoTmpAfterReturn ==
  \A c \in Calls :
    (dl[c].pc = "returned" /\ FindModel(dl[c].id).found /\ dl[c].log # <<>>) =>
       ~ExistsSync(files, TmpPath(ModelFileName(dl[c].id)))

\* C34: the minimum size is applied alike at every checkpoint: a file that
\* downloadModel accepted (renamed to the final path, success returned) is
\* accepted by verifyModel, and the next getAvailableModels marks it
\* downloaded and leaves it at its path, whatever its size, the minimum
\* size itself included.
C34_ThresholdConsistent ==
  \A c \in Calls :
    (ReturnedOk(c) /\ ExistsSync(files, ModelFileName(dl[c].id))) =>
       LET modelId == dl[c].id
           v == VerifyModel(files, isDownloaded, modelId, FALSE)
           g == GetAvailableModels(files, isDownloaded, {}, {})
       IN /\ v.result.success
          /\ g.flags[modelId]
          /\ ExistsSync(g.fs, ModelFileName(modelId))
          /\ ~ExistsSync(g.fs, CorruptedPath(ModelFileName(modelId)))

\* C37: the size check of the 'end' handler sees the whole body: when the
\* chunks received sum to the minimum size or more, the pass is not rejected
\* with 'Downloaded file too small'; and once the writes of a successful call
\* have completed, the file at the final path holds every chunk received.
C37_EndSeesWholeBody ==
  /\ [][\A c \in Calls :
          (/\ dl[c].pc = "streaming" /\ dl'[c].ev = "end"
           /\ Len(dl'[c].log) = Len(dl[c].log) + 1
           /\ dl[c].downloadedSize >= MinSize)
          => dl'[c].log[Len(dl'[c].log)].outcome # "Downloaded file too small"]_vars
  /\ [](\A c \in Calls :
          (ReturnedOk(c) /\ dl[c].pending = <<>>) =>
             StatSize(files, ModelFileName(dl[c].id)) = dl[c].downloadedSize)

----------------------------------------------------------------------------
(* Properties of the load and generate handlers, checked under SpecLoad *)

\* C1: in loadModel, a first load attempt with gpuLayers > 0 that fails (the
\* mock returns false, the native object throws) is followed by exactly one
\* retry, with gpuLayers = 0; if the retry fails too, loadModel returns
\* 'Failed to load model' and isModelLoaded() is false afterwards, with no
\* context held.
C1_LoadFallback ==
  (result.op = "loadModel" /\ libLog # <<>> /\ libLog[1].arg > 0 /\ ~libLog[1].ok) =>
     /\ Len(libLog) = 2
     /\ libLog[2].fn = "loadModel" /\ libLog[2].arg = 0
     /\ ~libLog[2].ok =>
          /\ result = Fail("loadModel", result.id, "Failed to load model", "", 0)
          /\ ~IsModelLoaded(llm)
          /\ llm.ctx = "null"

\* a load whose first attempt, on the GPU, and whose retry both failed
C1_RetryFailed ==
  /\ result.op = "loadModel" /\ Len(libLog) = 2
  /\ libLog[1].arg > 0 /\ ~libLog[1].ok /\ ~libLog[2].ok

\* C9: generate called while no model is loaded (never loaded, or after a
\* failed load) returns 'No model loaded' and makes no call to the execution
\* library.
C9_NoModelLoaded ==
  (result.op = "generateText" /\ ~(llm.native /\ llm.modelLoaded)) =>
     /\ result = Fail("generateText", "", "No model loaded", "", 0)
     /\ libLog = <<>>

\* generate refused after a load that reached the engine and failed
C9_AfterFailedLoad ==
  /\ result.op = "generateText" /\ result.error = "No model loaded"
  /\ llm.native /\ engine.modelSettings # "null"

\* C11: after any sequence of loads the native object holds at most one model
\* and one context; at every return modelLoaded is true exactly when both a
\* model and a context are held, and a load that failed (at the model load or
\* at the creation of the context) leaves neither held.
C11_NothingHeldAfterFailure ==
  /\ llm.modelLoaded <=> (llm.model # "null" /\ llm.ctx # "null")
  /\ (result.op = "loadModel" /\ libLog # <<>> /\ ~libLog[Len(libLog)].ok) =>
        llm.model = "null" /\ llm.ctx = "null"

\* the ids are in ascending order of size
AscendingSize(ids) ==
  \A k \in 1..(Len(ids) - 1) : FindModel(ids[k]).model.size <= FindModel(ids[k + 1]).model.size

\* every catalog id occurs exactly once in ids
EachOnce(ids) ==
  /\ Len(ids) = Cardinality(CatalogIds)
  /\ \A id \in CatalogIds : \E k \in 1..Len(ids) : ids[k] = id

\* C21: recommend returns, for every hardware profile, all catalog descriptors
\* exactly once, ordered by ascending size.
C21_RecommendSorted ==
  /\ EachOnce(order)
  /\ result.op = "recommendModels" => AscendingSize(order)
  /\ \A hardwareInfo \in {"none", "nvidia", "apple", "other"} :
       /\ EachOnce(RecommendModels(order, hardwareInfo))
       /\ AscendingSize(RecommendModels(order, hardwareInfo))

\* recommend has returned the catalog in another order than the constructor's
C21_Reordered ==
  /\ result.op = "recommendModels"
  /\ order # [k \in 1..Len(sampleModels) |-> sampleModels[k].id]
  /\ order[1] = "tinyllama-compat"

\* C23: a loadModel call that returns success has recorded the model id and
\* the model's generation defaults in the engine; a loadModel call that
\* returns failure leaves the recorded active model and the recorded
\* generation defaults as they were before the call.
C23_FailedLoadKeepsSession ==
  [][/\ (result'.op = "loadModel" /\ result'.success) =>
          engine' = [activeModel |-> result'.id, modelSettings |-> result'.id]
     /\ (result'.op = "loadModel" /\ ~result'.success) => engine' = engine]_vars

\* C24: a load of a catalog model whose file is missing or below the minimum
\* size fails with the failure reason verifyModel reports for that file, makes
\* no call of the library's loadModel, and leaves the native object and the
\* engine's session state unchanged.
C24_LoadPropagatesVerify ==
  [][\A modelId \in CatalogIds :
       (/\ result'.op = "loadModel" /\ result'.id = modelId
        /\ \/ ~ExistsSync(files, ModelFileName(modelId))
           \/ StatSize(files, ModelFileName(modelId)) < MinSize)
       => /\ ~result'.success
          /\ LET reason == VerifyModel(files, isDownloaded, modelId, FALSE).result.error
             IN result'.error = reason \/ result'.cause = reason
          /\ libLog' = <<>>
          /\ llm' = llm /\ engine' = engine]_vars

\* C25: the gpuLayers of the first load attempt is 0 when no GPU is reported,
\* the all-layers value on an NVIDIA GPU and the small fixed value on Apple
\* Silicon; with FORCE_CPU set it is 0 on every machine, and no load attempt
\* of the call is made with gpuLayers > 0.
C25_LayersFromHardware ==
  (result.op = "loadModel" /\ libLog # <<>>) =>
     /\ ~host.gpu.available => libLog[1].arg = 0
     /\ (~host.forceCpu /\ host.gpu.available /\ host.gpu.isNvidia) => libLog[1].arg = AllLayers
     /\ (~host.forceCpu /\ host.gpu.available /\ ~host.gpu.isNvidia /\ host.gpu.isAppleSilicon) =>
           libLog[1].arg = MetalLayers
     /\ host.forceCpu => \A k \in 1..Len(libLog) : libLog[k].arg = 0

\* with FORCE_CPU set on a machine with an NVIDIA GPU, a load attempt was made
\* and failed, and no second attempt followed
C25_OverrideOnNvidia ==
  /\ result.op = "loadModel"
  /\ host.forceCpu /\ host.gpu.available /\ host.gpu.isNvidia
  /\ Len(libLog) = 1 /\ ~libLog[1].ok

\* C26: a model loaded by an attempt this.llm.loadModel(path, n, contextSize)
\* is loaded with n layers offloaded: the n_gpu_layers of the model_params of
\* the successful attempt is n, the argument of that attempt (0 for the
\* CPU-only fallback).
C26_LayersApplied ==
  (result.op = "loadModel" /\ result.success) =>
     llm.params = [source |-> "argument", n |-> libLog[Len(libLog)].arg]

----------------------------------------------------------------------------
(* Properties of the decoding loop, checked under SpecLoad *)

\* the positions of the calls of fn in the log of the last step
LogOf(fn) == {k \in 1..Len(libLog) : libLog[k].fn = fn}

\* C27: a generate call returns, a result or a failure, after at most
\* maxTokens sampling passes and at most maxTokens single-token decodes; with
\* maxTokens <= 0 no token is sampled and the output is the prompt alone.
C27_LoopBounded ==
  (result.op = "generateText" /\ libLog # <<>>) =>
     LET maxTokens == libLog[1].arg
         limit == IF maxTokens > 0 THEN maxTokens ELSE 0
     IN /\ result.kind = "object"
        /\ Cardinality(LogOf("get_logits")) <= limit
        /\ Cardinality(LogOf("sample")) <= limit
        /\ Cardinality({k \in LogOf("decode") : libLog[k].arg > 0}) <= limit
        /\ (maxTokens <= 0 /\ libLog[1].ok) => (result.success /\ result.size = 0)

\* the loop ran to max_tokens, more than one pass
C27_RanToMaxTokens ==
  /\ result.op = "generateText" /\ result.success
  /\ libLog[1].arg > 1
  /\ Cardinality(LogOf("get_logits")) = libLog[1].arg
  /\ libLog[Len(libLog)].fn = "decode" /\ libLog[Len(libLog)].ok

\* C28: when the token sampled in pass i is the end-of-sequence token the loop
\* stops in that pass: no piece is appended for it (the output holds the i
\* pieces of the passes before), it is not decoded, and no later pass runs.
C28_EosStops ==
  result.op = "generateText" =>
     \A k \in LogOf("sample") :
        ~libLog[k].ok =>
           /\ k = Len(libLog)
           /\ result.success
           /\ result.size = libLog[k].arg

\* the second pass sampled the end-of-sequence token
C28_EosInSecondPass ==
  /\ result.op = "generateText"
  /\ libLog # <<>>
  /\ libLog[Len(libLog)] = LibCall("sample", 1, FALSE)
  /\ result.size = 1

C30_PromptFailureAborts ==
  result.op = "generateText" =>
     \A k \in 1..Len(libLog) :
        (/\ libLog[k].fn = "tokenize" \/ (libLog[k].fn = "decode" /\ libLog[k].arg = 0)
         /\ ~libLog[k].ok)
        => /\ k = Len(libLog)
           /\ ~result.success /\ result.kind = "object" /\ result.size = 0
           /\ result.error = "Generation failed"
           /\ result.cause = (IF libLog[k].fn = "tokenize" THEN "Failed to tokenize prompt"
                                                          ELSE "Failed to decode prompt")
           /\ LogOf("get_logits") = {}

\* the decode of the prompt failed
C30_PrefillFailed ==
  /\ result.op = "generateText" /\ ~result.success
  /\ Len(libLog) = 3
  /\ libLog[3] = LibCall("decode", 0, FALSE)

\* the positions of the single-token decodes in the log, in the order of the calls
SingleDecodes == {k \in LogOf("decode") : k > 3}

\* C31: in one generate call whose prompt has n tokens the prompt is decoded
\* as one batch that starts at position 0, and the k-th pass of the loop
\* decodes one token, the one it just sampled, at position n + k - 1: no
\* position is left out or used twice.
C31_PositionsContiguous ==
  (result.op = "generateText" /\ Len(libLog) >= 3) =>
     LET n == libLog[2].arg
     IN /\ libLog[2].fn = "tokenize" /\ libLog[3].fn = "decode" /\ libLog[3].arg = 0
        /\ \A k \in SingleDecodes :
              LET pass == Cardinality({j \in SingleDecodes : j <= k})
              IN /\ libLog[k].arg = n + pass - 1
                 /\ libLog[k - 1] = LibCall("token_to_piece", pass - 1, TRUE)
                 /\ libLog[k - 2] = LibCall("sample", pass - 1, TRUE)

\* a prompt of two tokens, and the second pass decoded its token at position 3
C31_SecondPassDecoded ==
  /\ result.op = "generateText"
  /\ Len(libLog) = 11
  /\ libLog[2] = LibCall("tokenize", 2, TRUE)
  /\ libLog[11] = LibCall("decode", 3, TRUE)

\* C39: each read of the logits in the decoding loop follows a llama_decode
\* that succeeded and that asked for the logits of the last token of its
\* batch, the batch of the prompt before the first pass included.
C39_LogitsOfLastDecode ==
  result.op = "generateText" =>
     \A k \in LogOf("get_logits") :
        /\ libLog[k - 1].fn = "decode" /\ libLog[k - 1].ok
        /\ libLog[k].ok

----------------------------------------------------------------------------
(* Properties of two downloads of one model, checked under SpecSame *)

\* call c has a write stream open on the file at the temporary path
StreamsToTmp(fs, c) ==
  LET tmpPath == TmpPath(ModelFileName(dl[c].id))
  IN dl[c].pc = "streaming" /\ ExistsSync(fs, tmpPath) /\ c \in fs[tmpPath].owners

\* C40: of two overlapping calls for one model, no step of one call removes
\* the temporary file the other streams to or writes a chunk into it; and
\* when a call has returned success the final file holds the chunks of one
\* pass of one call, all of them.
C40_TmpFileOfOneCall ==
  /\ [][\A c \in Calls, o \in Calls :
          (c # o /\ dl'[o] = dl[o] /\ StreamsToTmp(files, o)) =>
             LET tmpPath == TmpPath(ModelFileName(dl[o].id))
             IN /\ ExistsSync(files', tmpPath) /\ o \in files'[tmpPath].owners
                /\ \A k \in 1..Len(files'[tmpPath].data) :
                      files'[tmpPath].data[k].src[1] = o]_vars
  /\ [](\A c \in Calls :
          (ReturnedOk(c) /\ dl["d1"].pending = <<>> /\ dl["d2"].pending = <<>>) =>
             LET final == files[ModelFileName(dl[c].id)]
             IN /\ final.exists /\ final.data # <<>>
                /\ \A k \in 1..Len(final.data) : final.data[k].src = final.data[1].src
                /\ SumLen(final.data) >= MinSize)

----------------------------------------------------------------------------
(* Properties of the session state, checked under SpecSwitch *)

\* C35: after any sequence of loadModel calls, whenever the engine records an
\* active model, the native object has that model loaded: activeModel # null
\* implies isModelLoaded(), with the model held being the active one.
C35_ActiveModelLoaded ==
  engine.activeModel # "null" =>
     (IsModelLoaded(llm) /\ llm.model = engine.activeModel)

\* C36: after any sequence of loadModel calls, whenever isModelLoaded() is
\* true, the recorded active model and generation defaults are those of the
\* model that is loaded, the one of the last successful loadModel call.
C36_SessionOfLoadedModel ==
  IsModelLoaded(llm) =>
     (engine.activeModel = llm.model /\ engine.modelSettings = llm.model)

\* a load of orca-mini has failed while tinyllama-compat stays loaded
C36_FailedLoadBesideLoaded ==
  /\ IsModelLoaded(llm) /\ llm.model = "tinyllama-compat"
  /\ result.op = "loadModel" /\ result.id = "orca-mini" /\ ~result.success

----------------------------------------------------------------------------
(* Properties of concurrent downloads, checked under SpecPair *)

\* the paths of the model that the call in slot c downloads
OwnPaths(c) ==
  {ModelFileName(dl[c].id), TmpPath(ModelFileName(dl[c].id)),
   CorruptedPath(ModelFileName(dl[c].id))}

\* C13: downloads of two different models at the same time do not interfere:
\* a step of one call changes neither the record of the other call nor the
\* temporary file, the final file or the flag of the other's model, so under
\* every interleaving each call ends as it would alone: on success its final
\* file holds the chunks of its own succeeding attempt and nothing else, on
\* failure its final path stays empty.
C13_DownloadsIndependent ==
  /\ [][\A c \in Calls :
          (dl'[c] = dl[c] /\ dl[c].id \in DiskIds) =>
            /\ \A p \in OwnPaths(c) : files'[p] = files[p]
            /\ isDownloaded'[dl[c].id] = isDownloaded[dl[c].id]]_vars
  /\ [](\A c \in Calls :
          dl[c].pc = "returned" =>
            LET d == dl[c]
                f == files[ModelFileName(d.id)]
            IN IF d.log[Len(d.log)].outcome = "ok"
               THEN /\ f.exists /\ isDownloaded[d.id]
                    /\ \A k \in 1..Len(f.data) : f.data[k].src = <<c, d.log[Len(d.log)].i>>
               ELSE ~f.exists /\ ~isDownloaded[d.id])

\* both calls were streaming at once, one has returned success on a mirror
\* and the other has returned failure
C13_BothReturned ==
  /\ dl["d1"].pc = "returned" /\ dl["d2"].pc = "returned"
  /\ dl["d1"].log[Len(dl["d1"].log)].outcome # "ok"
  /\ dl["d2"].log[Len(dl["d2"].log)].outcome = "ok" /\ Len(dl["d2"].log) = 3
  /\ dl["d1"].dirty /\ dl["d2"].dirty

----------------------------------------------------------------------------
(* Properties of one sampling iteration, checked under SpecSample *)

\* the lowest index at which the logits take their maximum
ArgMaxLowest(logits) ==
  CHOOSE i \in 1..Len(logits) :
    /\ \A j \in 1..Len(logits) : ~LogitGt(logits[j], logits[i])
    /\ \A j \in 1..(i - 1) : LogitGt(logits[i], logits[j])

\* C14: with temperature <= 0 the token chosen is the arg-max index of the raw
\* logits, the lowest index among equal maxima; it is a function of the logits
\* alone, and no random draw is made.
C14_GreedyArgMax ==
  (sampler.pc = "sampled" /\ sampler.temperature <= 0) =>
     /\ sampler.token = ArgMaxLowest(sampler.logits) - 1
     /\ sampler.draws = 0

\* greedy sampling has chosen a token other than token 0 whose logit is the
\* maximum and occurs again at a higher index
C14_TieBroken ==
  /\ sampler.pc = "sampled" /\ sampler.temperature <= 0
  /\ sampler.token > 0
  /\ \E j \in (sampler.token + 2)..Len(sampler.logits) :
       sampler.logits[j] = sampler.logits[sampler.token + 1]

\* p[sorted[1]] + ... + p[sorted[k]], accumulated in single precision
PrefixMass(p, sorted, k) == SumTo([j \in 1..k |-> p[sorted[j]]], k)

\* C15: nucleus truncation keeps exactly the shortest prefix of the
\* descending-sorted probabilities whose cumulative mass first exceeds top_p,
\* the crossing entry included, and zeroes every entry after it; of
\* [0.5, 0.3, 0.1, 0.1] with top_p = 0.7 only the first two entries survive.
C15_ShortestPrefixKept ==
  sampler.pc = "top_p" =>
    LET p      == sampler.full
        n      == Len(sampler.full)
        sorted == SortDesc(sampler.full)
    IN /\ \E k \in 1..n :
            /\ \A j \in 1..(k - 1) : ~FGt(PrefixMass(p, sorted, j), sampler.top_p)
            /\ FGt(PrefixMass(p, sorted, k), sampler.top_p) \/ k = n
            /\ \A j \in 1..n :
                 sampler.probs[sorted[j]] = IF j <= k THEN p[sorted[j]] ELSE Zero
       /\ (p = <<Frac(1, 2), Frac(3, 10), Frac(1, 10), Frac(1, 10)>> /\ sampler.top_p = Frac(7, 10)) =>
            sampler.probs = <<Frac(1, 2), Frac(3, 10), Zero, Zero>>

\* apply_top_p has run on [0.5, 0.3, 0.1, 0.1] with top_p = 0.7
C15_ExampleTruncated ==
  /\ sampler.pc = "top_p"
  /\ sampler.full = <<Frac(1, 2), Frac(3, 10), Frac(1, 10), Frac(1, 10)>>
  /\ sampler.top_p = Frac(7, 10)
  /\ sampler.probs[3] = Zero

\* C16: with top_p = 1.0 and temperature = 1.0 nucleus truncation zeroes no
\* entry: the vector after apply_top_p is the vector before it.
C16_TopPOneKeepsAll ==
  (sampler.pc = "top_p" /\ sampler.temperature = 1 /\ sampler.top_p = Frac(1, 1)) =>
     sampler.probs = sampler.full

\* C22: in the temperature branch the token drawn belongs to the set nucleus
\* truncation retained: its entry after apply_top_p is not zero, for every
\* draw of the random value.
C22_DrawnTokenRetained ==
  (sampler.pc = "sampled" /\ sampler.temperature > 0) =>
     sampler.probs[sampler.token + 1] # Zero

----------------------------------------------------------------------------
(* Properties of the sanitizer, checked under SpecSanitize *)

\* C17: the sanitizer is idempotent: applied to a text it returned, it returns
\* that text unchanged.
C17_Idempotent ==
  sanitizer.pc = "twice" => sanitizer.again = sanitizer.output

\* C18: the sanitizer never returns the empty string, and whenever the text is
\* empty after the cleanup steps (an empty continuation included) or a step
\* throws, it returns the one apologetic fallback string.
C18_OneFallback ==
  sanitizer.pc = "once" =>
    /\ sanitizer.output # <<>>
    /\ (sanitizer.thrown \/ Cleanup(sanitizer.input) = <<>>) => sanitizer.output = Apology

----------------------------------------------------------------------------
(* Properties of concurrent inference requests, checked under SpecConc *)

\* C12: under every interleaving of loadModel and generate requests, a call
\* of the library's load primitive never begins while the tokenize, prefill
\* and decode loop of a generation is under way, and a generation never
\* begins while a load attempt or its CPU fallback is under way: the library
\* calls of one step are all of one load (both attempts) or all of one
\* generation.
C12_LoadGenerateExclusive ==
  /\ [][(libLog' # <<>> /\ libLog'[1].fn = "loadModel") => ipc.gen # "decoding"]_vars
  /\ [](\A k \in 1..Len(libLog) :
          (libLog[k].fn = "loadModel") <=> (result.op = "loadModel"))
  /\ []((result.op = "loadModel" /\ Len(libLog) = 2) =>
          (~libLog[1].ok /\ libLog[2].arg = 0))

\* a generation ran to its end while a loadModel request was waiting for the
\* hardware information
C12_GenerateWhileLoadWaits ==
  /\ ipc.load = "hw"
  /\ result.op = "generateText" /\ result.success /\ Len(libLog) > 2

----------------------------------------------------------------------------
(* Properties of verifyModel, checked under SpecStore *)

\* C6: for every catalog model with no file at its resolved path, verify
\* returns 'Model file not found' and the descriptor's isDownloaded is false
\* afterwards.
C6_VerifyMissing ==
  (/\ result.op = "verifyModel"
   /\ result.id \in DiskIds
   /\ ~files[ModelFileName(result.id)].exists) =>
     /\ result = Fail("verifyModel", result.id, "Model file not found", "", 0)
     /\ ~isDownloaded[result.id]

\* verify has answered for a catalog model that has no file
C6_MissingVerified ==
  /\ result.op = "verifyModel" /\ result.id \in DiskIds
  /\ ~files[ModelFileName(result.id)].exists
  /\ result.error = "Model file not found"

\* C7: for a model file that exists but is below the minimum size, verify
\* returns 'Model file is too small', quarantines the file (afterwards the
\* original path holds no file and the suffixed path does) and forces
\* isDownloaded to false.
C7_VerifyQuarantines ==
  (result.op = "verifyModel" /\ result.error = "Model file is too small") =>
     /\ ~files[ModelFileName(result.id)].exists
     /\ files[CorruptedPath(ModelFileName(result.id))].exists
     /\ ~isDownloaded[result.id]

----------------------------------------------------------------------------
(* Properties of deleteModel and getAvailableModels, checked under SpecStore *)

\* C19: delete of a catalog id is idempotent: it removes the final file if
\* there is one, succeeds when there is none, clears isDownloaded, and a second
\* delete right after a successful one leaves the same files and flags and
\* returns the same result; the catalog keeps its entries.
C19_DeleteIdempotent ==
  /\ [][\A id \in CatalogIds :
          (result'.op = "deleteModel" /\ result'.id = id /\ result'.success) =>
             /\ ModelFileName(id) \in DOMAIN files' => ~files'[ModelFileName(id)].exists
             /\ ~isDownloaded'[id]
             /\ order' = order
             /\ DeleteModel(files', isDownloaded', id, FALSE) =
                  [fs |-> files', flags |-> isDownloaded', result |-> result']]_vars
  /\ [](\A id \in CatalogIds, fault \in BOOLEAN :
          ~(ModelFileName(id) \in DOMAIN files /\ files[ModelFileName(id)].exists) =>
             DeleteModel(files, isDownloaded, id, fault).result = Ok("deleteModel", id, 0))

\* delete has succeeded for one model while another model is still on disk
\* and marked as downloaded
C19_DeletedOne ==
  /\ result.op = "deleteModel" /\ result.success /\ result.id = "orca-mini"
  /\ ~files[ModelFileName("orca-mini")].exists
  /\ files[ModelFileName("tinyllama-compat")].exists
  /\ isDownloaded["tinyllama-compat"]

\* a file above the size getAvailableModels takes as valid is at the model's path
ValidFileAt(id) ==
  /\ ModelFileName(id) \in DOMAIN files
  /\ files[ModelFileName(id)].exists
  /\ StatSize(files, ModelFileName(id)) > MinSize

\* C20: after getAvailableModels returns, a descriptor's isDownloaded is true
\* only if a file of valid size is at its resolved path then, and, when no
\* statSync call threw, exactly if one is, whatever the flag was before.
C20_FlagsRecomputed ==
  result.op = "getAvailableModels" =>
    \A id \in CatalogIds :
      /\ isDownloaded[id] => ValidFileAt(id)
      /\ result.cause = "" => (isDownloaded[id] <=> ValidFileAt(id))

\* getAvailableModels has returned with one model marked as downloaded and
\* another model's file moved aside and marked as not downloaded
C20_ListedMixed ==
  /\ result.op = "getAvailableModels" /\ result.cause = ""
  /\ \E id \in DiskIds : isDownloaded[id]
  /\ \E id \in DiskIds : files[CorruptedPath(ModelFileName(id))].exists /\ ~isDownloaded[id]

----------------------------------------------------------------------------
(* Properties of the caller-facing operations together, checked under SpecApi *)

\* the operations that answer with an object, and those that answer with the
\* array of the model descriptors
ObjectOps == {"verifyModel", "downloadModel", "deleteModel", "loadModel", "generateText"}
ArrayOps == {"getAvailableModels", "recommendModels"}

\* C10 as stated: every caller-facing operation, for every input and every
\* failure of the filesystem, the network or the execution library, ends by
\* returning { success, ...payload } or { success: false, error }; none throws.
C10_UniformShape ==
  result.op # "none" => result.kind = "object"

\* C10 as the code has it: verifyModel, downloadModel, deleteModel, loadModel
\* and generate return an object with success, and an error when success is
\* false; getAvailableModels and recommendModels return the array of
\* descriptors itself; no operation throws to its caller.
C10_ResultShapes ==
  /\ result.op \in ObjectOps \cup ArrayOps \cup {"none"}
  /\ result.kind # "thrown"
  /\ result.op \in ObjectOps => result.kind = "object" /\ (result.success \/ result.error # "")
  /\ result.op \in ArrayOps => result.kind = "array"

\* the execution library failed during a generation, and generate returned
\* the failure as an object
C10_LibraryFailureReturned ==
  /\ result.op = "generateText" /\ result.kind = "object"
  /\ result.error = "Generation failed"

====
